---- MODULE Spec2Model ----
(***************************************************************************)
(* Resume ingestion and retrieval pipeline (backend/src/controllers/       *)
(* resumeController.js, backend/src/utils/gridfs.js).                      *)
(*                                                                         *)
(* Strings are sequences of one-character strings.  The metadata store     *)
(* (Resume, Company, Keyword collections) and the GridFS bucket are the    *)
(* shared state; every request handler is a process whose steps are the    *)
(* handler's awaits.                                                       *)
(***************************************************************************)
EXTENDS Integers, Sequences, FiniteSets, TLC

(***************************************************************************)
(* Bounds of the model.                                                    *)
(***************************************************************************)
\* requests started in one behaviour of the service (Spec)
MaxOps == 3

\* uploads started in one behaviour of the ingestion runs (SpecIngest)
MaxIngest == 2

\* requests started in one behaviour of the sequential runs (SpecSeq)
MaxSeqOps == 2

\* requests started in one behaviour of the racing runs (SpecRace)
MaxRaceOps == 2

\* requests started in one behaviour of the reading runs (SpecRead)
MaxReadOps == 3

\* requests started in one behaviour of the delete-all runs (SpecPurge)
MaxPurgeOps == 3

\* requests started in one behaviour of the field-processing runs
\* (SpecFields)
MaxFieldOps == 2

\* requests started in one behaviour of the runs in which every await
\* eventually settles (SpecLive)
MaxLiveOps == 2

\* adminLogin and logout calls in one behaviour of the browser runs (SpecCtx)
MaxCtxOps == 5

\* the request slots: at most two handlers are in flight at a time
Slots == {1, 2}

(***************************************************************************)
(* Strings.                                                                *)
(***************************************************************************)
LowerLetters ==
  <<"a","b","c","d","e","f","g","h","i","j","k","l","m",
    "n","o","p","q","r","s","t","u","v","w","x","y","z">>

UpperLetters ==
  <<"A","B","C","D","E","F","G","H","I","J","K","L","M",
    "N","O","P","Q","R","S","T","U","V","W","X","Y","Z">>

\* String.prototype.toUpperCase on one character
UpperOf ==
  [c \in {LowerLetters[i] : i \in 1..26} |->
     UpperLetters[CHOOSE i \in 1..26 : LowerLetters[i] = c]]

UpperChar(c) == IF c \in DOMAIN UpperOf THEN UpperOf[c] ELSE c

\* String.prototype.toLowerCase on one character
LowerOf ==
  [c \in {UpperLetters[i] : i \in 1..26} |->
     LowerLetters[CHOOSE i \in 1..26 : UpperLetters[i] = c]]

LowerChar(c) == IF c \in DOMAIN LowerOf THEN LowerOf[c] ELSE c

toUpperCase(s) == [i \in 1..Len(s) |-> UpperChar(s[i])]

toLowerCase(s) == [i \in 1..Len(s) |-> LowerChar(s[i])]

\* the characters String.prototype.trim removes (ECMAScript WhiteSpace and
\* LineTerminator): space, TAB, LF, CR, FF, VT (U+000B), NBSP (U+00A0),
\* U+1680 and U+FEFF; the Zs characters U+2000..U+200A, U+202F, U+205F,
\* U+3000 and the separators U+2028, U+2029 cannot be written in a string
\* of this language and are not among the inputs
IsSpace(c) ==
  c \in {" ", "\t", "\n", "\r", "\f", "", " ", " ", "﻿"}

RECURSIVE trimStart(_)
trimStart(s) ==
  IF s # <<>> /\ IsSpace(Head(s)) THEN trimStart(Tail(s)) ELSE s

RECURSIVE trimEnd(_)
trimEnd(s) ==
  IF s # <<>> /\ IsSpace(s[Len(s)])
  THEN trimEnd(SubSeq(s, 1, Len(s) - 1))
  ELSE s

\* String.prototype.trim
trim(s) == trimEnd(trimStart(s))

\* String.prototype.split(sep) for a one-character separator: the list of
\* the pieces between separators (always at least one piece)
RECURSIVE split(_, _)
split(s, sep) ==
  IF \E i \in 1..Len(s) : s[i] = sep
  THEN LET k == CHOOSE i \in 1..Len(s) :
                   s[i] = sep /\ \A j \in 1..(i - 1) : s[j] # sep
       IN  <<SubSeq(s, 1, k - 1)>> \o split(SubSeq(s, k + 1, Len(s)), sep)
  ELSE <<s>>

\* Array.prototype.join(sep)
RECURSIVE join(_, _)
join(words, sep) ==
  IF words = <<>> THEN <<>>
  ELSE IF Len(words) = 1 THEN words[1]
  ELSE words[1] \o <<sep>> \o join(Tail(words), sep)

\* Array.prototype.includes
includes(list, x) == x \in {list[i] : i \in 1..Len(list)}

\* Array.prototype.filter(Boolean) on a list of strings: drops the empty ones
RECURSIVE filterNonEmpty(_)
filterNonEmpty(list) ==
  IF list = <<>> THEN <<>>
  ELSE IF Head(list) = <<>> THEN filterNonEmpty(Tail(list))
  ELSE <<Head(list)>> \o filterNonEmpty(Tail(list))

\* [...new Set(list)]: first occurrences, in order
uniqueList(list) ==
  LET first == {i \in 1..Len(list) : \A j \in 1..(i - 1) : list[j] # list[i]}
  IN  [k \in 1..Cardinality(first) |->
         list[CHOOSE i \in first : Cardinality({j \in first : j <= i}) = k]]

\* s.split(',').map(x => x.trim()).filter(Boolean)
csvList(s) ==
  LET parts == split(s, ",")
  IN  filterNonEmpty([i \in 1..Len(parts) |-> trim(parts[i])])

(***************************************************************************)
(* formatTitleCase                                                         *)
(***************************************************************************)
commonAbbreviations ==
  << <<"L","L","C">>, <<"L","L","P">>, <<"I","n","c">>, <<"C","o","r","p">>,
     <<"L","t","d">>, <<"C","o">>, <<"U","S","A">>, <<"U","S">>, <<"U","K">>,
     <<"A","I">>, <<"I","T">>, <<"I","B","M">>, <<"H","P">>, <<"A","W","S">>,
     <<"G","E">> >>

commonLowercase ==
  << <<"o","f">>, <<"t","h","e">>, <<"a","n","d">>, <<"a">>, <<"a","n">>,
     <<"i","n">>, <<"o","n">>, <<"a","t">>, <<"b","y">>, <<"f","o","r">>,
     <<"w","i","t","h">>, <<"t","o">>>>

\* String.prototype.charAt(0): the first character, "" for the empty string
charAt0(s) == IF s = <<>> THEN <<>> ELSE <<s[1]>>

\* String.prototype.slice(1): everything after the first character
slice1(s) == IF s = <<>> THEN <<>> ELSE Tail(s)

\* a callback that leaves the rest of the word as it was typed
formatWord_keepRest(word, index) ==
  IF includes(commonAbbreviations, toUpperCase(word))
  THEN toUpperCase(word)
  ELSE IF index > 0 /\ includes(commonLowercase, toLowerCase(word))
  THEN toLowerCase(word)
  ELSE toUpperCase(charAt0(word)) \o slice1(word)

\* the callback of .map((word, index) => ...), index counted from 0
formatWord(word, index) ==
  IF includes(commonAbbreviations, toUpperCase(word))
  THEN toUpperCase(word)
  ELSE IF index > 0 /\ includes(commonLowercase, toLowerCase(word))
  THEN toLowerCase(word)
  ELSE toUpperCase(charAt0(word)) \o toLowerCase(slice1(word))

formatTitleCase(text) ==
  IF text = <<>> THEN <<>>
  ELSE LET words == split(text, " ")
       IN  join([i \in 1..Len(words) |-> formatWord(words[i], i - 1)], " ")


(***************************************************************************)
(* Buffers.  A buffer is its leading bytes (head) followed by `fill` more  *)
(* bytes of padding, so that a buffer above the size ceiling has a value.  *)
(***************************************************************************)
BufLen(b) == Len(b.head) + b.fill

\* Buffer.prototype.slice(from, to), offsets counted from 0, to exclusive
BufSlice(b, from, to) ==
  LET n  == BufLen(b)
      lo == IF from > n THEN n ELSE from
      hi == IF to > n THEN n ELSE IF to < lo THEN lo ELSE to
      hl == Len(b.head)
      h1 == IF lo > hl THEN hl ELSE lo
      h2 == IF hi > hl THEN hl ELSE hi
  IN  [head |-> SubSeq(b.head, h1 + 1, h2),
       fill |-> (hi - lo) - (h2 - h1)]

\* what res.write(chunk) adds to the bytes already written
BufAppend(a, b) ==
  [head |-> IF a.fill = 0 THEN a.head \o b.head ELSE a.head,
   fill |-> IF a.fill = 0 THEN b.fill ELSE a.fill + Len(b.head) + b.fill]

EmptyBuf == [head |-> <<>>, fill |-> 0]

\* 10 * 1024 * 1024, the ceiling of uploadResume
MaxFileBytes == 10485760

\* the chunk size of the bucket opened by getBucket (driver default, 255 KiB)
ChunkSizeBytes == 261120

\* req.file.buffer.slice(0, 4).toString()
PdfMagic == <<"%", "P", "D", "F">>

(***************************************************************************)
(* File names                                                              *)
(***************************************************************************)
IsSafeChar(c) ==
  \/ \E i \in 1..26 : LowerLetters[i] = c \/ UpperLetters[i] = c
  \/ c \in {"0","1","2","3","4","5","6","7","8","9",".","_","-"}

\* s.replace(/[^a-zA-Z0-9._-]/g, '_')
sanitize(s) == [i \in 1..Len(s) |-> IF IsSafeChar(s[i]) THEN s[i] ELSE "_"]

\* s.replace(/\.[^/.]+$/, ""): drops a last extension
stripExt(s) ==
  IF \E k \in 1..(Len(s) - 1) :
        s[k] = "." /\ \A j \in (k + 1)..Len(s) : s[j] \notin {".", "/"}
  THEN LET k == CHOOSE i \in 1..(Len(s) - 1) :
                   s[i] = "." /\ \A j \in (i + 1)..Len(s) : s[j] \notin {".", "/"}
       IN  SubSeq(s, 1, k - 1)
  ELSE s

Unspecified == <<"U","n","s","p","e","c","i","f","i","e","d">>

Ellipsis == <<".", ".", ".">>

\* the column width the controller truncates to, and the kept prefix
MaxFieldLen == 255

KeptPrefixLen == 252

\* the cap on the company and keyword lists
MaxTags == 100

slice0(list, n) == IF Len(list) > n THEN SubSeq(list, 1, n) ELSE list

isBlank(s) == trim(s) = <<>>


(***************************************************************************)
(* Inputs of the requests                                                  *)
(***************************************************************************)
\* req.user as set by the authenticate middleware
Users ==
  { [id |-> "u1", role |-> "member"],
    [id |-> "u2", role |-> "member"],
    [id |-> "root", role |-> "admin"] }

\* req.file absent
NoFile == [exists |-> FALSE, originalname |-> <<>>, buffer |-> EmptyBuf]

PdfName == <<"a","l",".","p","d","f">>

\* a small PDF, "%PDF-1"
SmallPdf ==
  [exists |-> TRUE, originalname |-> PdfName,
   buffer |-> [head |-> PdfMagic \o <<"-", "1">>, fill |-> 0]]

\* a PDF of two GridFS chunks
TwoChunkPdf ==
  [exists |-> TRUE, originalname |-> <<"c", " ", "v", ".", "p", "d", "f">>,
   buffer |-> [head |-> PdfMagic \o <<"-", "2">>, fill |-> ChunkSizeBytes]]

EmptyFile ==
  [exists |-> TRUE, originalname |-> PdfName, buffer |-> EmptyBuf]

GifFile ==
  [exists |-> TRUE, originalname |-> PdfName,
   buffer |-> [head |-> <<"G", "I", "F", "8", "9">>, fill |-> 0]]

\* one byte above the ceiling
BigPdf ==
  [exists |-> TRUE, originalname |-> PdfName,
   buffer |-> [head |-> PdfMagic, fill |-> MaxFileBytes - 3]]

\* a small PDF sent with an empty filename
NamelessPdf == [SmallPdf EXCEPT !.originalname = <<>>]

NoBody ==
  [name |-> <<>>, major |-> <<>>, graduationYear |-> <<>>,
   companies |-> <<>>, keywords |-> <<>>]

\* companies = "acme", keywords = "js"
AcmeBody ==
  [NoBody EXCEPT !.companies = <<"a","c","m","e">>, !.keywords = <<"j","s">>]

\* name = "Al", major = "CS", graduationYear = "2025",
\* companies = " ACME ,it of", keywords = "js, JS"
FullBody ==
  [name |-> <<"A","l">>, major |-> <<"C","S">>,
   graduationYear |-> <<"2","0","2","5">>,
   companies |-> <<" ","A","C","M","E"," ",",","i","t"," ","o","f">>,
   keywords |-> <<"j","s",","," ","J","S">>]

\* name = "Al", major = "CS", graduationYear = "2025", companies = "ACME"
CsBody ==
  [NoBody EXCEPT !.name = <<"A","l">>, !.major = <<"C","S">>,
                 !.graduationYear = <<"2","0","2","5">>,
                 !.companies = <<"A","C","M","E">>]

\* what parseResume may do: throw (here an error without a message), or
\* return extracted data
ParseThrows == [throws |-> TRUE, message |-> <<>>, data |-> NoBody]

ParseOk ==
  [throws |-> FALSE, message |-> <<>>,
   data |-> [name |-> <<"B","o">>, major |-> <<>>,
             graduationYear |-> <<"2","0","2","4">>,
             companies |-> << <<" ","A","c","m","e">> >>,
             keywords |-> << <<"j","s"," ">> >>]]

\* a string of 256 characters
LongText == [i \in 1..(MaxFieldLen + 1) |-> "x"]

\* a list of 101 names: 100 times "a", then "b"
LongList == [i \in 1..(MaxTags + 1) |-> IF i <= MaxTags THEN <<"a">> ELSE <<"b">>]

\* an extraction with over-long fields and an over-long company list
ParseLong ==
  [throws |-> FALSE, message |-> <<>>,
   data |-> [name |-> LongText, major |-> LongText,
             graduationYear |-> LongText,
             companies |-> LongList, keywords |-> <<>>]]

\* name, major and graduationYear of one space each
BlankBody ==
  [NoBody EXCEPT !.name = <<" ">>, !.major = <<" ">>,
                 !.graduationYear = <<" ">>]

(***************************************************************************)
(* State                                                                   *)
(***************************************************************************)
VARIABLES
  resumes,    \* Resume collection, committed documents; index = _id
  companies,  \* Company collection: the names; index = _id
  keywords,   \* Keyword collection: the names; index = _id
  files,      \* GridFS bucket `resumes`; index = fileId
  txnLock,    \* pairs <<resume _id, slot>>: uncommitted write of a session
  now,        \* clock behind createdAt
  req,        \* the request handled in each slot
  nops,       \* requests started so far
  ctx         \* the browser: AuthProvider's state, localStorage, the cookie

vars == <<resumes, companies, keywords, files, txnLock, now, req, nops, ctx>>

store == <<resumes, companies, keywords, files, txnLock, now>>

Idle == [kind |-> "idle", pc |-> "idle", status |-> 0]

\* useState(null): no user
NoUser == [id |-> "", token |-> 0]

Init ==
  /\ resumes = <<>>
  /\ companies = <<>>
  /\ keywords = <<>>
  /\ files = <<>>
  /\ txnLock = {}
  /\ now = 0
  /\ req = [s \in Slots |-> Idle]
  /\ nops = 0
  /\ ctx = [check |-> "unmounted", login |-> "idle", user |-> NoUser,
            isLoading |-> TRUE, token |-> 0, cookie |-> 0, calls |-> 0]

\* a handler may start in slot s: the slot is not in flight; of two unused
\* slots the first is taken
Free(s, max) ==
  /\ req[s].pc \in {"idle", "done"}
  /\ nops < max
  /\ (s = 1 \/ req[1].kind # "idle")

\* res.status(code).json(...): the handler is finished
Respond(r, code) == [r EXCEPT !.pc = "done", !.status = code]

\* the catch block of updateResume, deleteResume or deleteAllResumes issues
\* abortTransaction on a transaction that is already committed; when the
\* driver rejects that call the handler's promise rejects before
\* res.status(500) and nothing is ever sent
Unanswered(r) == [r EXCEPT !.pc = "unanswered"]

(***************************************************************************)
(* GridFS (utils/gridfs.js)                                                *)
(***************************************************************************)
\* uploadFile that stores the first chunk only
uploadFile_firstChunk(buffer, filename) ==
  Append(files, [data |-> BufSlice(buffer, 0, ChunkSizeBytes),
                 filename |-> filename, present |-> TRUE])

\* uploadFile resolving: the stream finished, the file has a new id
uploadFile(buffer, filename) ==
  Append(files, [data |-> buffer, filename |-> filename, present |-> TRUE])

FilePresent(fileId) == fileId \in 1..Len(files) /\ files[fileId].present

\* deleteFile resolving: bucket.delete removed the file
deleteFile(fileId) == [files EXCEPT ![fileId].present = FALSE]

(***************************************************************************)
(* uploadResume: validation, parsing and data processing (no await on the  *)
(* stores before the GridFS upload)                                        *)
(***************************************************************************)
\* validation without the signature check
validate_noSignature(file) ==
  IF ~file.exists THEN 400
  ELSE IF BufLen(file.buffer) = 0 THEN 400
  ELSE IF BufLen(file.buffer) > MaxFileBytes THEN 400
  ELSE 0

\* the status of the validation stage, 0 when the file passes
validate(file) ==
  IF ~file.exists THEN 400
  ELSE IF BufLen(file.buffer) = 0 THEN 400
  ELSE IF BufLen(file.buffer) > MaxFileBytes THEN 400
  ELSE IF BufSlice(file.buffer, 0, 4) # [head |-> PdfMagic, fill |-> 0] THEN 400
  ELSE 0

\* String(n) for a natural number: `${Date.now()}` with the clock at n
RECURSIVE decimal(_)
decimal(n) ==
  LET digit == <<"0","1","2","3","4","5","6","7","8","9">>
  IN  IF n < 10 THEN <<digit[n + 1]>>
      ELSE decimal(n \div 10) \o <<digit[(n % 10) + 1]>>

\* `Unknown_Resume_${Date.now()}`
UnknownResume ==
  <<"U","n","k","n","o","w","n","_","R","e","s","u","m","e","_">>
    \o decimal(now)

\* filenameWithoutExt: the name without its extension, or for an empty
\* originalname `Resume_${Date.now()}`
filenameWithoutExt(file) ==
  IF file.originalname # <<>> THEN stripExt(file.originalname)
  ELSE <<"R","e","s","u","m","e","_">> \o decimal(now)

\* parsedData: the extractor's result, or the fallback when it threw
parsedDataOf(parse, stem) ==
  IF parse.throws
  THEN [name |-> stem, major |-> Unspecified, graduationYear |-> Unspecified,
        companies |-> <<>>, keywords |-> <<>>]
  ELSE parse.data

UnknownParsingError ==
  <<"U","n","k","n","o","w","n"," ","p","a","r","s","i","n","g"," ",
    "e","r","r","o","r">>

\* a warning that is never carried to the response
parsingErrorMessage_lost(parse) == [null |-> TRUE, text |-> <<>>]

\* parsingErrorMessage: null, or parseError.message || "Unknown parsing error"
parsingErrorMessage(parse) ==
  IF parse.throws
  THEN [null |-> FALSE,
        text |-> IF parse.message # <<>> THEN parse.message
                 ELSE UnknownParsingError]
  ELSE [null |-> TRUE, text |-> <<>>]

truncate(s) ==
  IF Len(s) > MaxFieldLen THEN SubSeq(s, 1, KeptPrefixLen) \o Ellipsis ELSE s

resolveName(body, parsed, stem) ==
  LET n1 == IF body.name # <<>> THEN body.name
            ELSE IF parsed.name # <<>> /\ ~isBlank(parsed.name) THEN parsed.name
            ELSE stem
      n2 == IF n1 = <<>> \/ isBlank(n1) THEN UnknownResume ELSE n1
  IN  truncate(n2)

firstTruthy(a, b) == IF a # <<>> THEN a ELSE b

resolveMajor(body, parsed) ==
  LET m1 == firstTruthy(body.major, parsed.major)
      m2 == IF m1 = <<>> \/ isBlank(m1) THEN Unspecified ELSE m1
  IN  truncate(m2)

resolveYear(body, parsed) ==
  LET y1 == firstTruthy(body.graduationYear, parsed.graduationYear)
      y2 == IF y1 = <<>> \/ isBlank(y1) THEN Unspecified ELSE y1
  IN  IF Len(y2) > MaxFieldLen THEN Unspecified ELSE y2

\* uniqueCompanyList / uniqueKeywordList: cap at 100, then deduplicate
tagList(csv, extracted) ==
  uniqueList(slice0(IF csv # <<>> THEN csvList(csv) ELSE extracted, MaxTags))


(***************************************************************************)
(* uploadResume                                                            *)
(***************************************************************************)
\* req.file?.originalname || 'Unnamed file'
UnnamedFile == <<"U","n","n","a","m","e","d"," ","f","i","l","e">>

originalFilenameOf(file) ==
  IF file.exists /\ file.originalname # <<>> THEN file.originalname
  ELSE UnnamedFile

\* the steps after which the catch block cleans up the GridFS file
errorAfterGridFS ==
  {"associate_companies", "associate_keywords", "database_create",
   "transaction_commit"}

\* uploadResume up to the first await on a store: validation, parseResume,
\* data processing
UploadFrom(s, max, users, fileSet, bodySet, parseSet) ==
  /\ Free(s, max)
  /\ \E user \in users, file \in fileSet, body \in bodySet,
        parse \in parseSet :
       LET stem   == filenameWithoutExt(file)
           parsed == parsedDataOf(parse, stem)
           base   == [kind |-> "upload", pc |-> "gridfs_upload", status |-> 0,
                      user |-> user, file |-> file, body |-> body,
                      parse |-> parse,
                      currentStep |-> "validation", parseCalled |-> FALSE,
                      parsingWarning |-> [null |-> TRUE, text |-> <<>>],
                      gridfsFileId |-> 0,
                      name |-> <<>>, major |-> <<>>, graduationYear |-> <<>>,
                      companyList |-> <<>>, keywordList |-> <<>>,
                      todo |-> <<>>, got |-> <<>>, creates |-> <<>>,
                      companyIds |-> <<>>, keywordIds |-> <<>>,
                      createdAt |-> 0, deletes |-> 0, deleteOk |-> FALSE,
                      storeError |-> FALSE, rid |-> 0]
       IN  req' = [req EXCEPT ![s] =
             IF validate(file) # 0 THEN Respond(base, validate(file))
             ELSE [base EXCEPT
                     !.currentStep = "gridfs_upload",
                     !.parseCalled = TRUE,
                     !.parsingWarning = parsingErrorMessage(parse),
                     !.name = resolveName(body, parsed, stem),
                     !.major = resolveMajor(body, parsed),
                     !.graduationYear = resolveYear(body, parsed),
                     !.companyList = tagList(body.companies, parsed.companies),
                     !.keywordList = tagList(body.keywords, parsed.keywords)]]
  /\ nops' = nops + 1
  /\ UNCHANGED ctx
  /\ UNCHANGED store

\* the store, not the handler, made the operation fail
StoreFailed(r) == [r EXCEPT !.storeError = TRUE]

\* a catch block without the clean-up of the GridFS file
EnterCatch_noCleanup(r) == Respond(r, 500)

\* a catch block that cleans up whatever the step was
EnterCatch_always(r) == [r EXCEPT !.pc = "compensate"]

\* the catch block of uploadResume, up to its await on deleteFromGridFS
EnterCatch(r) ==
  IF r.gridfsFileId # 0 /\ r.currentStep \in errorAfterGridFS
  THEN [r EXCEPT !.pc = "compensate"]
  ELSE Respond(r, 500)

\* currentStep = 'associate_keywords' and what follows the company block
ToKeywords(r) ==
  IF r.keywordList # <<>>
  THEN [r EXCEPT !.pc = "kw_find", !.currentStep = "associate_keywords",
                 !.todo = r.keywordList, !.got = <<>>]
  ELSE [r EXCEPT !.pc = "db_create", !.currentStep = "database_create",
                 !.todo = <<>>, !.got = <<>>]

\* currentStep = 'associate_companies' and the company block
ToCompanies(r) ==
  IF r.companyList # <<>>
  THEN [r EXCEPT !.pc = "co_find", !.currentStep = "associate_companies",
                 !.todo = r.companyList, !.got = <<>>]
  ELSE ToKeywords(r)

\* await uploadToGridFS(req.file.buffer, safeFilename, 'application/pdf')
UploadGridFS(s) ==
  /\ req[s].kind = "upload" /\ req[s].pc = "gridfs_upload"
  /\ \/ /\ files' = uploadFile(req[s].file.buffer,
                               sanitize(originalFilenameOf(req[s].file)))
        /\ req' = [req EXCEPT ![s] =
                     ToCompanies([req[s] EXCEPT !.gridfsFileId = Len(files')])]
     \/ \* the upload stream emits 'error'
        /\ req' = [req EXCEPT ![s] = EnterCatch(StoreFailed(req[s]))]
        /\ UNCHANGED files
  /\ UNCHANGED <<resumes, companies, keywords, txnLock, now, nops, ctx>>

(***************************************************************************)
(* findOrCreateCompanies / findOrCreateKeywords, called by uploadResume    *)
(* and updateResume                                                        *)
(***************************************************************************)
\* the name a tag is stored and looked up under
tagKey(phase, name) ==
  IF phase = "co" THEN formatTitleCase(trim(name)) ELSE trim(name)

\* Company.findOne({ name }) / Keyword.findOne({ name }): the _id, 0 for null
findOne(coll, key) ==
  IF includes(coll, key)
  THEN CHOOSE i \in 1..Len(coll) :
         coll[i] = key /\ \A j \in 1..(i - 1) : coll[j] # key
  ELSE 0

\* a store that rejects the create of every name as a duplicate
createOutcomes_rejectsAll(coll, key) == {"duplicateKey"}

\* Company.create / Keyword.create of a name whose find missed.  A store
\* that enforces the unique index on name rejects the create of a name
\* stored in between with a duplicate-key error; a store without the
\* index inserts a second record of that name.  Both outcomes are kept.
createOutcomes(coll, key) ==
  IF includes(coll, key) THEN {"inserted", "duplicateKey"} ELSE {"inserted"}

\* the loop is over: the resolved objects are returned to the caller
TagsDone(r, phase, ids) ==
  IF r.kind = "upload"
  THEN IF phase = "co" THEN ToKeywords([r EXCEPT !.companyIds = ids])
       ELSE [r EXCEPT !.keywordIds = ids, !.pc = "db_create",
                      !.currentStep = "database_create",
                      !.todo = <<>>, !.got = <<>>]
  ELSE IF phase = "co"
       THEN IF r.keywordList # <<>>
            THEN [r EXCEPT !.doc.companies = ids, !.pc = "kw_find",
                           !.todo = r.keywordList, !.got = <<>>]
            ELSE [r EXCEPT !.doc.companies = ids,
                           !.doc.keywords =
                              IF r.body.keywords # <<>> THEN <<>> ELSE @,
                           !.pc = "save", !.todo = <<>>, !.got = <<>>]
       ELSE [r EXCEPT !.doc.keywords = ids, !.pc = "save",
                      !.todo = <<>>, !.got = <<>>]

\* companies.push(company) and the next iteration
TagPush(r, phase, id) ==
  IF Len(r.todo) = 1 THEN TagsDone(r, phase, Append(r.got, id))
  ELSE [r EXCEPT !.pc = IF phase = "co" THEN "co_find" ELSE "kw_find",
                 !.todo = Tail(r.todo),
                 !.got = Append(r.got, id)]

\* findOne or create rejected: uploadResume logs and continues without any
\* id of this kind, updateResume ends in its catch block
TagsThrow(r, phase) ==
  IF r.kind = "upload" THEN TagsDone(r, phase, <<>>)
  ELSE Respond(r, 500)

InTags(s, pc) == req[s].kind \in {"upload", "update"} /\ req[s].pc = pc

\* let company = await Company.findOne({ name: formattedName })
CoFind(s) ==
  /\ InTags(s, "co_find")
  /\ LET key == tagKey("co", Head(req[s].todo))
         id  == findOne(companies, key)
     IN  \/ req' = [req EXCEPT ![s] =
                      IF id # 0 THEN TagPush(req[s], "co", id)
                      ELSE [req[s] EXCEPT !.pc = "co_create"]]
         \/ req' = [req EXCEPT ![s] = TagsThrow(StoreFailed(req[s]), "co")]
  /\ UNCHANGED <<store, nops, ctx>>

\* company = await Company.create({ name: formattedName })
CoCreate(s) ==
  /\ InTags(s, "co_create")
  /\ LET key == tagKey("co", Head(req[s].todo))
         r   == [req[s] EXCEPT !.creates = Append(@, "co")]
     IN  \/ \E outcome \in createOutcomes(companies, key) :
              /\ companies' = IF outcome = "inserted"
                              THEN Append(companies, key) ELSE companies
              /\ req' = [req EXCEPT ![s] =
                           IF outcome = "inserted"
                           THEN TagPush(r, "co", Len(companies'))
                           ELSE TagsThrow(r, "co")]
         \/ /\ req' = [req EXCEPT ![s] = TagsThrow(StoreFailed(r), "co")]
            /\ UNCHANGED companies
  /\ UNCHANGED <<resumes, keywords, files, txnLock, now, nops, ctx>>

\* let keyword = await Keyword.findOne({ name: trimmedName })
KwFind(s) ==
  /\ InTags(s, "kw_find")
  /\ LET key == tagKey("kw", Head(req[s].todo))
         id  == findOne(keywords, key)
     IN  \/ req' = [req EXCEPT ![s] =
                      IF id # 0 THEN TagPush(req[s], "kw", id)
                      ELSE [req[s] EXCEPT !.pc = "kw_create"]]
         \/ req' = [req EXCEPT ![s] = TagsThrow(StoreFailed(req[s]), "kw")]
  /\ UNCHANGED <<store, nops, ctx>>

\* keyword = await Keyword.create({ name: trimmedName })
KwCreate(s) ==
  /\ InTags(s, "kw_create")
  /\ LET key == tagKey("kw", Head(req[s].todo))
         r   == [req[s] EXCEPT !.creates = Append(@, "kw")]
     IN  \/ \E outcome \in createOutcomes(keywords, key) :
              /\ keywords' = IF outcome = "inserted"
                              THEN Append(keywords, key) ELSE keywords
              /\ req' = [req EXCEPT ![s] =
                           IF outcome = "inserted"
                           THEN TagPush(r, "kw", Len(keywords'))
                           ELSE TagsThrow(r, "kw")]
         \/ /\ req' = [req EXCEPT ![s] = TagsThrow(StoreFailed(r), "kw")]
            /\ UNCHANGED keywords
  /\ UNCHANGED <<resumes, companies, files, txnLock, now, nops, ctx>>

(***************************************************************************)
(* uploadResume: the Resume record, the commit and the catch block         *)
(***************************************************************************)
\* a document that does not carry the id of the uploaded file
newResume_noFile(r) ==
  [name |-> trim(r.name), major |-> trim(r.major),
   graduationYear |-> trim(r.graduationYear),
   fileId |-> 0,
   uploadedBy |-> IF r.user.id = "" THEN "admin" ELSE r.user.id,
   companies |-> r.companyIds, keywords |-> r.keywordIds,
   isActive |-> TRUE, createdAt |-> r.createdAt]

\* the document Resume.create builds: the schema trims the three strings
\* and sets the defaults
newResume(r) ==
  [name |-> trim(r.name), major |-> trim(r.major),
   graduationYear |-> trim(r.graduationYear),
   fileId |-> r.gridfsFileId,
   uploadedBy |-> IF r.user.id = "" THEN "admin" ELSE r.user.id,
   companies |-> r.companyIds, keywords |-> r.keywordIds,
   isActive |-> TRUE, createdAt |-> r.createdAt]

\* tag records written in the session of the Resume: a rejected
\* Resume.create rolls them back with the transaction
UploadCreate_tagsInSession(s) ==
  /\ req[s].kind = "upload" /\ req[s].pc = "db_create"
  /\ \/ /\ req' = [req EXCEPT ![s] =
                     [req[s] EXCEPT !.pc = "commit", !.createdAt = now + 1,
                                    !.currentStep = "transaction_commit"]]
        /\ now' = now + 1
        /\ UNCHANGED <<companies, keywords>>
     \/ /\ req' = [req EXCEPT ![s] = EnterCatch(StoreFailed(req[s]))]
        /\ companies' = <<>> /\ keywords' = <<>>
        /\ UNCHANGED now
  /\ UNCHANGED <<resumes, files, txnLock, nops, ctx>>

\* resume = await Resume.create([...], { session })
UploadCreate(s) ==
  /\ req[s].kind = "upload" /\ req[s].pc = "db_create"
  /\ \/ /\ req' = [req EXCEPT ![s] =
                     [req[s] EXCEPT !.pc = "commit", !.createdAt = now + 1,
                                    !.currentStep = "transaction_commit"]]
        /\ now' = now + 1
     \/ \* Resume.create rejects: abort, end the session, rethrow
        /\ req' = [req EXCEPT ![s] = EnterCatch(StoreFailed(req[s]))]
        /\ UNCHANGED now
  /\ UNCHANGED <<resumes, companies, keywords, files, txnLock, nops, ctx>>

\* await session.commitTransaction(); await session.endSession(); 201
UploadCommit(s) ==
  /\ req[s].kind = "upload" /\ req[s].pc = "commit"
  /\ \/ /\ resumes' = Append(resumes, newResume(req[s]))
        /\ req' = [req EXCEPT ![s] =
                     Respond([req[s] EXCEPT !.rid = Len(resumes')], 201)]
     \/ \* the commit rejects
        /\ req' = [req EXCEPT ![s] = EnterCatch(StoreFailed(req[s]))]
        /\ UNCHANGED resumes
     \/ \* the transaction is committed and the handler still sees a failure
        \* (the acknowledgement of the commit is lost, or endSession or
        \* sending the 201 throws): catch block
        /\ resumes' = Append(resumes, newResume(req[s]))
        /\ req' = [req EXCEPT ![s] =
                     EnterCatch(StoreFailed([req[s] EXCEPT
                                               !.rid = Len(resumes')]))]
  /\ UNCHANGED <<companies, keywords, files, txnLock, now, nops, ctx>>

\* the data of the 201 response: the stored strings, the warning and the
\* deduplicated lists of names the request supplied
uploadResponseData(r) ==
  [id |-> r.rid,
   name |-> trim(r.name), major |-> trim(r.major),
   graduationYear |-> trim(r.graduationYear),
   parsingWarning |-> r.parsingWarning,
   companies |-> r.companyList, keywords |-> r.keywordList]

\* a catch block that tries the delete a second time
UploadCompensate_retry(s) ==
  /\ req[s].kind = "upload" /\ req[s].pc = "compensate"
  /\ \/ /\ FilePresent(req[s].gridfsFileId)
        /\ files' = deleteFile(req[s].gridfsFileId)
        /\ req' = [req EXCEPT ![s] =
                     Respond([req[s] EXCEPT !.deletes = @ + 1,
                                            !.deleteOk = TRUE], 500)]
     \/ /\ UNCHANGED files
        /\ req' = [req EXCEPT ![s] =
                     IF req[s].deletes = 0
                     THEN [req[s] EXCEPT !.deletes = @ + 1]
                     ELSE Respond([req[s] EXCEPT !.deletes = @ + 1], 500)]
  /\ UNCHANGED <<resumes, companies, keywords, txnLock, now, nops, ctx>>

\* the catch block: await deleteFromGridFS(gridfsFileId), then the 500
UploadCompensate(s) ==
  /\ req[s].kind = "upload" /\ req[s].pc = "compensate"
  /\ \/ /\ FilePresent(req[s].gridfsFileId)
        /\ files' = deleteFile(req[s].gridfsFileId)
        /\ req' = [req EXCEPT ![s] =
                     Respond([req[s] EXCEPT !.deletes = @ + 1,
                                            !.deleteOk = TRUE], 500)]
     \/ \* bucket.delete fails: logged only
        /\ UNCHANGED files
        /\ req' = [req EXCEPT ![s] =
                     Respond([req[s] EXCEPT !.deletes = @ + 1], 500)]
  /\ UNCHANGED <<resumes, companies, keywords, txnLock, now, nops, ctx>>


(***************************************************************************)
(* Sessions: a document written in a transaction that has not committed    *)
(* is locked for the other sessions, and a write to a document that        *)
(* changed after the session read it is a write conflict                   *)
(***************************************************************************)
LockedByOther(id, s) == \E t \in Slots \ {s} : <<id, t>> \in txnLock

Release(s) == {l \in txnLock : l[2] # s}

\* no check of the id format
isValidId_any(id) == TRUE

\* mongoose.Types.ObjectId.isValid(id): 0 stands for a malformed id
isValidId(id) == id # 0

\* a lookup by _id alone
findActive_anyRecord(id) == IF id \in 1..Len(resumes) THEN id ELSE 0

\* Resume.findOne({ _id: id, isActive: true }): the _id, 0 for null
findActive(id) ==
  IF id \in 1..Len(resumes) /\ resumes[id].isActive THEN id ELSE 0

\* the ids a request may name: a malformed one (0), every stored one, and
\* one that is not stored while the collection is empty
RequestIds == 0..(IF resumes = <<>> THEN 1 ELSE Len(resumes))

\* a check that lets only admins through
mayModify_adminOnly(user, doc) == user.role = "admin"

\* req.user.role === 'admin' || resume.uploadedBy === req.user.id
mayModify(user, doc) == user.role = "admin" \/ doc.uploadedBy = user.id

(***************************************************************************)
(* updateResume                                                            *)
(***************************************************************************)
\* name = "Bea", companies = "acme,ACME"
RenameBody ==
  [NoBody EXCEPT !.name = <<"B","e","a">>,
                 !.companies = <<"a","c","m","e",",","A","C","M","E">>]

\* major = "EE", graduationYear = "2026", keywords = "go"
RetagBody ==
  [NoBody EXCEPT !.major = <<"E","E">>,
                 !.graduationYear = <<"2","0","2","6">>,
                 !.keywords = <<"g","o">>]

UpdateBodies == {RenameBody, RetagBody}

\* name of 256 characters
LongNameBody == [NoBody EXCEPT !.name = LongText]

\* the required, trimmed string paths of the Resume schema
validDoc(doc) ==
  /\ trim(doc.name) # <<>>
  /\ trim(doc.major) # <<>>
  /\ trim(doc.graduationYear) # <<>>

\* updateResume up to its first await after the lookup; rejects: the
\* Resume.findOne of the lookup rejects (catch block)
UpdateFrom(s, max, users, bodySet) ==
  /\ Free(s, max)
  /\ \E user \in users, id \in RequestIds, body \in bodySet,
        rejects \in BOOLEAN :
       LET base == [kind |-> "update", pc |-> "save", status |-> 0,
                    user |-> user, id |-> id, body |-> body,
                    doc |-> <<>>, snap |-> <<>>,
                    companyList |-> <<>>, keywordList |-> <<>>,
                    todo |-> <<>>, got |-> <<>>, creates |-> <<>>,
                    storeError |-> FALSE]
           old  == resumes[id]
           set  == [old EXCEPT
                      !.name = IF body.name # <<>> THEN body.name ELSE @,
                      !.major = IF body.major # <<>> THEN body.major ELSE @,
                      !.graduationYear =
                         IF body.graduationYear # <<>>
                         THEN body.graduationYear ELSE @]
           cl   == csvList(body.companies)
           kl   == csvList(body.keywords)
           r0   == [base EXCEPT !.snap = old, !.companyList = cl,
                                !.keywordList = kl]
       IN  req' = [req EXCEPT ![s] =
             IF ~isValidId(id) THEN Respond(base, 400)
             ELSE IF rejects THEN Respond(StoreFailed(base), 500)
             ELSE IF findActive(id) = 0 THEN Respond(base, 404)
             ELSE IF ~mayModify(user, old) THEN Respond(base, 403)
             ELSE IF body.companies # <<>> /\ cl # <<>>
             THEN [r0 EXCEPT !.doc = set, !.pc = "co_find", !.todo = cl]
             ELSE IF body.keywords # <<>> /\ kl # <<>>
             THEN [r0 EXCEPT
                     !.doc = IF body.companies # <<>>
                             THEN [set EXCEPT !.companies = <<>>] ELSE set,
                     !.pc = "kw_find", !.todo = kl]
             ELSE [r0 EXCEPT
                     !.doc = [set EXCEPT
                                !.companies =
                                   IF body.companies # <<>> THEN <<>> ELSE @,
                                !.keywords =
                                   IF body.keywords # <<>> THEN <<>> ELSE @]]]
  /\ nops' = nops + 1
  /\ UNCHANGED ctx
  /\ UNCHANGED store

\* the document as saved: the schema trims the string paths
savedDoc(doc) ==
  [doc EXCEPT !.name = trim(@), !.major = trim(@), !.graduationYear = trim(@)]

\* a save outside the transaction: the write reaches the record before the
\* failure is reported
UpdateSave_writesThrough(s) ==
  /\ req[s].kind = "update" /\ req[s].pc = "save"
  /\ \/ /\ validDoc(req[s].doc)
        /\ ~LockedByOther(req[s].id, s)
        /\ resumes[req[s].id] = req[s].snap
        /\ txnLock' = txnLock \cup {<<req[s].id, s>>}
        /\ req' = [req EXCEPT ![s].pc = "commit_update"]
        /\ UNCHANGED resumes
     \/ /\ validDoc(req[s].doc)
        /\ resumes' = [resumes EXCEPT ![req[s].id] = savedDoc(req[s].doc)]
        /\ req' = [req EXCEPT ![s] = Respond(req[s], 500)]
        /\ UNCHANGED txnLock
  /\ UNCHANGED <<companies, keywords, files, now, nops, ctx>>

\* await resume.save({ session })
UpdateSave(s) ==
  /\ req[s].kind = "update" /\ req[s].pc = "save"
  /\ \/ /\ validDoc(req[s].doc)
        /\ ~LockedByOther(req[s].id, s)
        /\ resumes[req[s].id] = req[s].snap
        /\ txnLock' = txnLock \cup {<<req[s].id, s>>}
        /\ req' = [req EXCEPT ![s].pc = "commit_update"]
     \/ \* validation error, write conflict or store failure: catch block
        /\ req' = [req EXCEPT ![s] = Respond(req[s], 500)]
        /\ UNCHANGED txnLock
  /\ UNCHANGED <<resumes, companies, keywords, files, now, nops, ctx>>

\* await session.commitTransaction(), the reload and the 200
UpdateCommit(s) ==
  /\ req[s].kind = "update" /\ req[s].pc = "commit_update"
  /\ \/ /\ resumes' = [resumes EXCEPT ![req[s].id] = savedDoc(req[s].doc)]
        /\ req' = [req EXCEPT ![s] = Respond(req[s], 200)]
     \/ \* the commit rejects: in the catch block abortTransaction, called
        \* after commitTransaction, rejects, and no response is sent
        /\ req' = [req EXCEPT ![s] = Unanswered(req[s])]
        /\ UNCHANGED resumes
     \/ \* the transaction is committed and the handler still sees a failure
        \* (the acknowledgement of the commit is lost, or endSession or the
        \* reload rejects): the catch block is rejected by its own
        \* abortTransaction and no response is sent
        /\ resumes' = [resumes EXCEPT ![req[s].id] = savedDoc(req[s].doc)]
        /\ req' = [req EXCEPT ![s] = Unanswered(StoreFailed(req[s]))]
  /\ txnLock' = Release(s)
  /\ UNCHANGED <<companies, keywords, files, now, nops, ctx>>

(***************************************************************************)
(* deleteResume                                                            *)
(***************************************************************************)
DeleteFrom(s, max, users) ==
  /\ Free(s, max)
  /\ \E user \in users, id \in RequestIds, rejects \in BOOLEAN :
       LET base == [kind |-> "delete", pc |-> "delete_save", status |-> 0,
                    user |-> user, id |-> id, snap |-> <<>>,
                    deletes |-> 0]
       IN  req' = [req EXCEPT ![s] =
             IF ~isValidId(id) THEN Respond(base, 400)
             ELSE IF rejects THEN \* Resume.findOne rejects: catch block
                                  Respond(base, 500)
             ELSE IF findActive(id) = 0 THEN Respond(base, 404)
             ELSE IF ~mayModify(user, resumes[id]) THEN Respond(base, 403)
             ELSE [base EXCEPT !.snap = resumes[id]]]
  /\ nops' = nops + 1
  /\ UNCHANGED ctx
  /\ UNCHANGED store

\* resume.isActive = false; await resume.save({ session })
DeleteSave(s) ==
  /\ req[s].kind = "delete" /\ req[s].pc = "delete_save"
  /\ \/ /\ ~LockedByOther(req[s].id, s)
        /\ resumes[req[s].id] = req[s].snap
        /\ txnLock' = txnLock \cup {<<req[s].id, s>>}
        /\ req' = [req EXCEPT ![s].pc = "delete_blob"]
     \/ \* write conflict or store failure: catch block
        /\ req' = [req EXCEPT ![s] = Respond(req[s], 500)]
        /\ UNCHANGED txnLock
  /\ UNCHANGED <<resumes, companies, keywords, files, now, nops, ctx>>

\* await deleteFromGridFS(resume.fileId).catch(...)
DeleteBlob(s) ==
  /\ req[s].kind = "delete" /\ req[s].pc = "delete_blob"
  /\ \/ /\ FilePresent(req[s].snap.fileId)
        /\ files' = deleteFile(req[s].snap.fileId)
     \/ \* bucket.delete fails: logged only
        UNCHANGED files
  /\ req' = [req EXCEPT ![s].pc = "delete_commit", ![s].deletes = @ + 1]
  /\ UNCHANGED <<resumes, companies, keywords, txnLock, now, nops, ctx>>

\* await session.commitTransaction() and the 200
DeleteCommit(s) ==
  /\ req[s].kind = "delete" /\ req[s].pc = "delete_commit"
  /\ \/ /\ resumes' = [resumes EXCEPT ![req[s].id].isActive = FALSE]
        /\ req' = [req EXCEPT ![s] = Respond(req[s], 200)]
     \/ \* the commit rejects: in the catch block abortTransaction, called
        \* after commitTransaction, rejects, and no response is sent
        /\ req' = [req EXCEPT ![s] = Unanswered(req[s])]
        /\ UNCHANGED resumes
     \/ \* the transaction is committed and the handler still sees a failure
        \* (the acknowledgement of the commit is lost, or endSession or
        \* sending the 200 throws): the catch block is rejected by its own
        \* abortTransaction and no response is sent
        /\ resumes' = [resumes EXCEPT ![req[s].id].isActive = FALSE]
        /\ req' = [req EXCEPT ![s] = Unanswered(req[s])]
  /\ txnLock' = Release(s)
  /\ UNCHANGED <<companies, keywords, files, now, nops, ctx>>

(***************************************************************************)
(* deleteAllResumes                                                        *)
(***************************************************************************)
\* Resume.find({ isActive: true }): the _ids, in _id order
RECURSIVE activeUpTo(_)
activeUpTo(n) ==
  IF n = 0 THEN <<>>
  ELSE IF resumes[n].isActive THEN Append(activeUpTo(n - 1), n)
  ELSE activeUpTo(n - 1)

activeIds == activeUpTo(Len(resumes))

DeleteAllFrom(s, max, users) ==
  /\ Free(s, max)
  /\ \E user \in users, rejects \in BOOLEAN :
       LET base == [kind |-> "deleteAll", pc |-> "all_update", status |-> 0,
                    user |-> user, all |-> <<>>, snaps |-> <<>>,
                    settled |-> {},
                    count |-> 0]
       IN  req' = [req EXCEPT ![s] =
             IF user.role # "admin" THEN Respond(base, 403)
             ELSE IF rejects THEN \* Resume.find rejects: catch block
                                  Respond(base, 500)
             ELSE IF activeIds = <<>> THEN Respond(base, 404)
             ELSE [base EXCEPT !.all = activeIds,
                     !.snaps = [i \in 1..Len(activeIds) |-> resumes[activeIds[i]]]]]
  /\ nops' = nops + 1
  /\ UNCHANGED ctx
  /\ UNCHANGED store

\* await Resume.updateMany({ isActive: true }, { isActive: false }, { session })
DeleteAllUpdate(s) ==
  /\ req[s].kind = "deleteAll" /\ req[s].pc = "all_update"
  /\ \/ /\ \A i \in 1..Len(req[s].all) :
              /\ ~LockedByOther(req[s].all[i], s)
              /\ resumes[req[s].all[i]] = req[s].snaps[i]
        /\ txnLock' = txnLock \cup {<<req[s].all[i], s>> : i \in 1..Len(req[s].all)}
        /\ req' = [req EXCEPT ![s].pc = "all_blobs"]
     \/ \* write conflict or store failure: catch block
        /\ req' = [req EXCEPT ![s] = Respond(req[s], 500)]
        /\ UNCHANGED txnLock
  /\ UNCHANGED <<resumes, companies, keywords, files, now, nops, ctx>>

\* a rejected deleteFromGridFS that rejects Promise.all
DeleteAllBlob_failFast(s) ==
  /\ req[s].kind = "deleteAll" /\ req[s].pc = "all_blobs"
  /\ \E j \in (1..Len(req[s].all)) \ req[s].settled :
       LET fileId == req[s].snaps[j].fileId
           after  == req[s].settled \cup {j}
       IN  \/ /\ FilePresent(fileId)
              /\ files' = deleteFile(fileId)
              /\ req' = [req EXCEPT ![s].settled = after,
                                    ![s].pc = IF after = 1..Len(req[s].all)
                                              THEN "all_commit"
                                              ELSE "all_blobs"]
              /\ UNCHANGED txnLock
           \/ /\ UNCHANGED files
              /\ req' = [req EXCEPT ![s] = Respond(req[s], 500)]
              /\ txnLock' = Release(s)
  /\ UNCHANGED <<resumes, companies, keywords, now, nops, ctx>>

\* a delete-all that deletes the file of the first record it read and
\* leaves the files of the others alone
DeleteAllBlob_firstOnly(s) ==
  /\ req[s].kind = "deleteAll" /\ req[s].pc = "all_blobs"
  /\ LET fileId == req[s].snaps[1].fileId
     IN  \/ /\ FilePresent(fileId)
            /\ files' = deleteFile(fileId)
         \/ UNCHANGED files
  /\ req' = [req EXCEPT ![s].settled = {1}, ![s].pc = "all_commit"]
  /\ UNCHANGED <<resumes, companies, keywords, txnLock, now, nops, ctx>>

\* one of the deleteFromGridFS promises of deletePromises settles: they
\* are all started by the map and settle in any order; settled holds the
\* positions in allResumes of those that have; Promise.all resolves after
\* the last one
DeleteAllBlob(s) ==
  /\ req[s].kind = "deleteAll" /\ req[s].pc = "all_blobs"
  /\ \E j \in (1..Len(req[s].all)) \ req[s].settled :
       LET fileId == req[s].snaps[j].fileId
           after  == req[s].settled \cup {j}
       IN  /\ \/ /\ FilePresent(fileId)
                 /\ files' = deleteFile(fileId)
              \/ \* bucket.delete fails: logged, resolved
                 UNCHANGED files
           /\ req' = [req EXCEPT ![s].settled = after,
                                 ![s].pc = IF after = 1..Len(req[s].all)
                                           THEN "all_commit"
                                           ELSE "all_blobs"]
  /\ UNCHANGED <<resumes, companies, keywords, txnLock, now, nops, ctx>>

\* a delete-all whose updateMany flags every record that is active when it
\* commits, not the records of its snapshot
DeleteAllCommit_everyActive(s) ==
  /\ req[s].kind = "deleteAll" /\ req[s].pc = "all_commit"
  /\ \/ /\ resumes' = [i \in 1..Len(resumes) |->
                         [resumes[i] EXCEPT !.isActive = FALSE]]
        /\ req' = [req EXCEPT ![s] =
                     Respond([req[s] EXCEPT !.count = Len(req[s].all)], 200)]
     \/ /\ req' = [req EXCEPT ![s] = Unanswered(req[s])]
        /\ UNCHANGED resumes
  /\ txnLock' = Release(s)
  /\ UNCHANGED <<companies, keywords, files, now, nops, ctx>>

\* a delete-all that removes the documents instead of flagging them
DeleteAllCommit_hardDelete(s) ==
  /\ req[s].kind = "deleteAll" /\ req[s].pc = "all_commit"
  /\ \/ /\ resumes' = SelectSeq(resumes, LAMBDA d : ~d.isActive)
        /\ req' = [req EXCEPT ![s] =
                     Respond([req[s] EXCEPT !.count = Len(req[s].all)], 200)]
     \/ /\ req' = [req EXCEPT ![s] = Unanswered(req[s])]
        /\ UNCHANGED resumes
  /\ txnLock' = Release(s)
  /\ UNCHANGED <<companies, keywords, files, now, nops, ctx>>

\* await session.commitTransaction() and the 200
DeleteAllCommit(s) ==
  /\ req[s].kind = "deleteAll" /\ req[s].pc = "all_commit"
  /\ \/ /\ resumes' = [i \in 1..Len(resumes) |->
                         IF includes(req[s].all, i)
                         THEN [resumes[i] EXCEPT !.isActive = FALSE]
                         ELSE resumes[i]]
        /\ req' = [req EXCEPT ![s] =
                     Respond([req[s] EXCEPT !.count = Len(req[s].all)], 200)]
     \/ \* the commit rejects: in the catch block abortTransaction, called
        \* after commitTransaction, rejects, and no response is sent
        /\ req' = [req EXCEPT ![s] = Unanswered(req[s])]
        /\ UNCHANGED resumes
     \/ \* the transaction is committed and the handler still sees a failure
        \* (the acknowledgement of the commit is lost, or endSession or
        \* sending the 200 throws): the catch block is rejected by its own
        \* abortTransaction and no response is sent
        /\ resumes' = [i \in 1..Len(resumes) |->
                         IF includes(req[s].all, i)
                         THEN [resumes[i] EXCEPT !.isActive = FALSE]
                         ELSE resumes[i]]
        /\ req' = [req EXCEPT ![s] = Unanswered(req[s])]
  /\ txnLock' = Release(s)
  /\ UNCHANGED <<companies, keywords, files, now, nops, ctx>>


(***************************************************************************)
(* getResumeFile and streamFileToResponse                                  *)
(***************************************************************************)
ResumeWord == <<"r","e","s","u","m","e">>

PdfExt == <<".","p","d","f">>

\* the filename of the Content-Disposition header
dispositionName(name) ==
  sanitize(IF name # <<>> THEN name ELSE ResumeWord) \o PdfExt

\* getResumeFile up to the call of streamFileToResponse
GetFileFrom(s, max) ==
  /\ Free(s, max)
  /\ \E id \in RequestIds, rejects \in BOOLEAN :
       LET base == [kind |-> "getFile", pc |-> "stream", status |-> 0,
                    id |-> id, fileId |-> 0, filename |-> <<>>,
                    body |-> EmptyBuf, ended |-> FALSE,
                    storeError |-> FALSE]
       IN  req' = [req EXCEPT ![s] =
             IF ~isValidId(id) THEN Respond(base, 400)
             ELSE IF rejects THEN \* Resume.findOne rejects: catch block
                                  Respond(StoreFailed(base), 500)
             ELSE IF findActive(id) = 0 \/ resumes[id].fileId = 0
             THEN Respond(base, 404)
             ELSE [base EXCEPT !.fileId = resumes[id].fileId,
                               !.filename = dispositionName(resumes[id].name)]]
  /\ nops' = nops + 1
  /\ UNCHANGED ctx
  /\ UNCHANGED store

\* the download stream emits 'data' (and 'end' after the last chunk), or
\* 'error': the file is not in the bucket, or (readFails) the read of a
\* chunk fails with another error
StreamFile(s) ==
  /\ req[s].kind = "getFile" /\ req[s].pc = "stream"
  /\ \E readFails \in BOOLEAN :
       LET r    == req[s]
           off  == BufLen(r.body)
           data == files[r.fileId].data
           out  == BufAppend(r.body,
                             BufSlice(data, off, off + ChunkSizeBytes))
       IN  req' = [req EXCEPT ![s] =
             IF ~FilePresent(r.fileId)
             THEN IF off = 0
                  THEN \* 'File not found': res.status(404).end()
                       Respond([r EXCEPT !.ended = TRUE], 404)
                  ELSE \* a chunk is missing after bytes were written
                       Respond(r, 200)
             ELSE IF readFails
             THEN IF off = 0
                  THEN \* headers not sent: res.status(500).end()
                       Respond(StoreFailed([r EXCEPT !.ended = TRUE]), 500)
                  ELSE \* bytes were written: the response is left open
                       Respond(StoreFailed(r), 200)
             ELSE IF BufLen(out) = BufLen(data)
                  THEN Respond([r EXCEPT !.body = out, !.ended = TRUE], 200)
                  ELSE [r EXCEPT !.body = out]]
  /\ UNCHANGED <<store, nops, ctx>>

(***************************************************************************)
(* getResumeById                                                           *)
(***************************************************************************)
\* populate(path, 'name') and .map(x => x.name)
namesOf(coll, ids) == [i \in 1..Len(ids) |-> coll[ids[i]]]

\* the summary of a record in a response
summary(id) ==
  [id |-> id, name |-> resumes[id].name, major |-> resumes[id].major,
   graduationYear |-> resumes[id].graduationYear,
   hasUrl |-> resumes[id].fileId # 0,
   companies |-> namesOf(companies, resumes[id].companies),
   keywords |-> namesOf(keywords, resumes[id].keywords)]

GetByIdFrom(s, max) ==
  /\ Free(s, max)
  /\ \E id \in RequestIds, rejects \in BOOLEAN :
       LET base == [kind |-> "getById", pc |-> "done", status |-> 0,
                    id |-> id, data |-> <<>>]
       IN  req' = [req EXCEPT ![s] =
             IF ~isValidId(id) THEN Respond(base, 400)
             ELSE IF rejects THEN \* Resume.findOne rejects: catch block
                                  Respond(base, 500)
             ELSE IF findActive(id) = 0 THEN Respond(base, 404)
             ELSE Respond([base EXCEPT !.data = <<summary(id)>>], 200)]
  /\ nops' = nops + 1
  /\ UNCHANGED ctx
  /\ UNCHANGED store

(***************************************************************************)
(* searchResumes                                                           *)
(***************************************************************************)
\* new RegExp(p, 'i') does not throw, for a pattern of letters, digits,
\* spaces, "." and "+": a "+" needs something to repeat, so it may neither
\* open the pattern nor follow another "+"
RegExpOk(p) ==
  \A k \in 1..Len(p) :
    p[k] = "+" => (k > 1 /\ p[k - 1] # "+")

\* the pattern from position k on matches hay from position i on: a
\* character matches itself in either case, "." any character but a line
\* terminator, and an atom followed by "+" one or more times
RECURSIVE matchAt(_, _, _, _)
matchAt(hay, i, p, k) ==
  IF k > Len(p) THEN TRUE
  ELSE LET atom(c) == IF p[k] = "."
                      THEN c \notin {"\n", "\r"}
                      ELSE LowerChar(c) = LowerChar(p[k])
       IN  IF k < Len(p) /\ p[k + 1] = "+"
           THEN \E n \in 1..(Len(hay) - i + 1) :
                  /\ \A j \in i..(i + n - 1) : atom(hay[j])
                  /\ matchAt(hay, i + n, p, k + 2)
           ELSE /\ i <= Len(hay) /\ atom(hay[i])
                /\ matchAt(hay, i + 1, p, k + 1)

\* new RegExp(needle, 'i').test(hay), as the $regex of a query does
matchesCI(hay, needle) ==
  \E i \in 1..(Len(hay) + 1) : matchAt(hay, i, needle, 1)

\* s.includes(word)
containsWord(s, word) ==
  \E i \in 0..(Len(s) - Len(word)) : SubSeq(s, i + 1, i + Len(word)) = word

\* Company.find / Keyword.find({ name: { $in: [regexes] } }): the _ids
tagsMatching(coll, needles) ==
  {i \in 1..Len(coll) :
     \E k \in 1..Len(needles) : matchesCI(coll[i], needles[k])}

CompanyWord == <<"c","o","m","p","a","n","y">>

KeywordWord == <<"k","e","y","w","o","r","d">>

ids(list) == {list[i] : i \in 1..Len(list)}

\* the query document built by searchResumes for the request r, as a
\* predicate on a record: the filters of the request and the ids that its
\* Company.find and Keyword.find calls returned
resumeQuery(r, doc) ==
  LET q         == r.query
      majorList == csvList(q.major)
      yearList  == csvList(q.graduationYear)
  IN  /\ doc.isActive
      /\ q.query # <<>> =>
           \/ matchesCI(doc.name, q.query)
           \/ matchesCI(doc.major, q.query)
           \/ matchesCI(doc.graduationYear, q.query)
           \/ ids(doc.companies) \cap r.matchingCompanies # {}
           \/ ids(doc.keywords) \cap r.matchingKeywords # {}
      /\ q.name # <<>> => matchesCI(doc.name, q.name)
      /\ q.major # <<>> =>
           \E k \in 1..Len(majorList) : matchesCI(doc.major, majorList[k])
      /\ q.graduationYear # <<>> => includes(yearList, doc.graduationYear)
      /\ q.company # <<>> => ids(doc.companies) \cap r.companyFilter # {}
      /\ q.keyword # <<>> => ids(doc.keywords) \cap r.keywordFilter # {}

\* .sort({ createdAt: -1 }) over a set of _ids
RECURSIVE sortNewestFirst(_)
sortNewestFirst(S) ==
  IF S = {} THEN <<>>
  ELSE LET m == CHOOSE i \in S :
                  \A j \in S : \/ resumes[j].createdAt < resumes[i].createdAt
                               \/ (resumes[j].createdAt = resumes[i].createdAt
                                   /\ j <= i)
       IN  <<m>> \o sortNewestFirst(S \ {m})

NoQuery ==
  [query |-> <<>>, name |-> <<>>, major |-> <<>>, company |-> <<>>,
   graduationYear |-> <<>>, keyword |-> <<>>]

\* the code that runs up to the next await once the company filter is
\* done (keywordDone: and the keyword filter too): the Keyword.find of a
\* keyword filter, whose patterns are compiled here, or else the
\* Company.find of a free-text query that includes 'company' or 'keyword',
\* or else Resume.find
searchNext(r, keywordDone) ==
  LET q == r.query
      keywordList == csvList(q.keyword)
  IN  IF ~keywordDone /\ q.keyword # <<>>
      THEN IF \E k \in 1..Len(keywordList) : ~RegExpOk(keywordList[k])
           THEN Respond(r, 500)
           ELSE [r EXCEPT !.pc = "keyword_find"]
      ELSE IF q.query # <<>> /\ (containsWord(q.query, CompanyWord)
                                \/ containsWord(q.query, KeywordWord))
      THEN [r EXCEPT !.pc = "widen_companies"]
      ELSE [r EXCEPT !.pc = "resume_find", !.queried = TRUE]

\* searchResumes up to its first await.  The patterns of query, name,
\* major and company are compiled before it: one that new RegExp rejects
\* sends the handler to its catch block.  queried: Resume.find was called
SearchFrom(s, max, queries) ==
  /\ Free(s, max)
  /\ \E q \in queries :
       LET base == [kind |-> "search", pc |-> "company_find", status |-> 0,
                    query |-> q, companyFilter |-> {}, keywordFilter |-> {},
                    matchingCompanies |-> {}, matchingKeywords |-> {},
                    data |-> <<>>, count |-> 0, queried |-> FALSE,
                    storeError |-> FALSE]
           majorList   == csvList(q.major)
           companyList == csvList(q.company)
           throws == \/ q.query # <<>> /\ ~RegExpOk(q.query)
                     \/ q.name # <<>> /\ ~RegExpOk(q.name)
                     \/ /\ q.major # <<>>
                        /\ \E k \in 1..Len(majorList) : ~RegExpOk(majorList[k])
                     \/ /\ q.company # <<>>
                        /\ \E k \in 1..Len(companyList) :
                             ~RegExpOk(companyList[k])
       IN  req' = [req EXCEPT ![s] =
             IF throws THEN Respond(base, 500)
             ELSE IF q.company # <<>> THEN base
             ELSE searchNext(base, FALSE)]
  /\ nops' = nops + 1
  /\ UNCHANGED ctx
  /\ UNCHANGED store

\* await Company.find({ name: { $in: [...] } }): no match is the early
\* empty response; a rejected find is the catch block
SearchCompanyFind(s) ==
  /\ req[s].kind = "search" /\ req[s].pc = "company_find"
  /\ LET found == tagsMatching(companies, csvList(req[s].query.company))
     IN  \/ req' = [req EXCEPT ![s] =
                      IF found = {} THEN Respond(req[s], 200)
                      ELSE searchNext(
                             [req[s] EXCEPT !.companyFilter = found], FALSE)]
         \/ req' = [req EXCEPT ![s] = Respond(StoreFailed(req[s]), 500)]
  /\ UNCHANGED <<store, nops, ctx>>

\* await Keyword.find({ name: { $in: [...] } })
SearchKeywordFind(s) ==
  /\ req[s].kind = "search" /\ req[s].pc = "keyword_find"
  /\ LET found == tagsMatching(keywords, csvList(req[s].query.keyword))
     IN  \/ req' = [req EXCEPT ![s] =
                      IF found = {} THEN Respond(req[s], 200)
                      ELSE searchNext(
                             [req[s] EXCEPT !.keywordFilter = found], TRUE)]
         \/ req' = [req EXCEPT ![s] = Respond(StoreFailed(req[s]), 500)]
  /\ UNCHANGED <<store, nops, ctx>>

\* the widened query: await Company.find({ name: searchRegex })
SearchWidenCompanies(s) ==
  /\ req[s].kind = "search" /\ req[s].pc = "widen_companies"
  /\ \/ req' = [req EXCEPT ![s] =
                  [req[s] EXCEPT
                     !.matchingCompanies =
                        tagsMatching(companies, <<req[s].query.query>>),
                     !.pc = "widen_keywords"]]
     \/ req' = [req EXCEPT ![s] = Respond(StoreFailed(req[s]), 500)]
  /\ UNCHANGED <<store, nops, ctx>>

\* the widened query: await Keyword.find({ name: searchRegex })
SearchWidenKeywords(s) ==
  /\ req[s].kind = "search" /\ req[s].pc = "widen_keywords"
  /\ \/ req' = [req EXCEPT ![s] =
                  [req[s] EXCEPT
                     !.matchingKeywords =
                        tagsMatching(keywords, <<req[s].query.query>>),
                     !.pc = "resume_find", !.queried = TRUE]]
     \/ req' = [req EXCEPT ![s] = Respond(StoreFailed(req[s]), 500)]
  /\ UNCHANGED <<store, nops, ctx>>

\* await Resume.find(resumeQuery).populate(...).sort({ createdAt: -1 }),
\* the formatting of the records and the 200
SearchResumeFind(s) ==
  /\ req[s].kind = "search" /\ req[s].pc = "resume_find"
  /\ \/ LET hit == sortNewestFirst({i \in 1..Len(resumes) :
                                      resumeQuery(req[s], resumes[i])})
            formattedResumes == [i \in 1..Len(hit) |-> summary(hit[i])]
        IN  req' = [req EXCEPT ![s] =
                      Respond([req[s] EXCEPT
                                 !.data = formattedResumes,
                                 !.count = Len(formattedResumes)], 200)]
     \/ req' = [req EXCEPT ![s] = Respond(StoreFailed(req[s]), 500)]
  /\ UNCHANGED <<store, nops, ctx>>

\* company=zzz&name=al
NoCompanyQuery ==
  [NoQuery EXCEPT !.company = <<"z","z","z">>, !.name = <<"a","l">>]

\* keyword=zz,&query=al
NoKeywordQuery ==
  [NoQuery EXCEPT !.keyword = <<"z","z",",">>, !.query = <<"a","l">>]

\* query=al&company=acme
TaggedQuery ==
  [NoQuery EXCEPT !.query = <<"a","l">>, !.company = <<"a","c","m","e">>]

\* major=cs, ee&graduationYear=2025&company=ac
MajorQuery ==
  [NoQuery EXCEPT !.major = <<"c","s",","," ","e","e">>,
                  !.graduationYear = <<"2","0","2","5">>,
                  !.company = <<"a","c">>]

\* keyword=JS&name=al
KeywordQuery ==
  [NoQuery EXCEPT !.keyword = <<"J","S">>, !.name = <<"a","l">>]

\* the last three: name=a. (a pattern with a metacharacter),
\* company=zzz&name=c++ (a pattern that new RegExp rejects) and
\* query=keyword (a widened query)
FilterQueries ==
  {NoQuery, NoCompanyQuery, NoKeywordQuery, TaggedQuery, MajorQuery,
   KeywordQuery,
   [NoQuery EXCEPT !.name = <<"a",".">>],
   [NoCompanyQuery EXCEPT !.name = <<"c","+","+">>],
   [NoQuery EXCEPT !.query = KeywordWord]}

(***************************************************************************)
(* The steps of the handlers that follow their start                       *)
(***************************************************************************)
TagSteps(s) == CoFind(s) \/ CoCreate(s) \/ KwFind(s) \/ KwCreate(s)

UploadSteps(s) ==
  UploadGridFS(s) \/ UploadCreate(s) \/ UploadCommit(s) \/ UploadCompensate(s)

UpdateSteps(s) == UpdateSave(s) \/ UpdateCommit(s)

SearchSteps(s) ==
  \/ SearchCompanyFind(s) \/ SearchKeywordFind(s)
  \/ SearchWidenCompanies(s) \/ SearchWidenKeywords(s)
  \/ SearchResumeFind(s)

(***************************************************************************)
(* The service: any request may start while another is in flight.  Every   *)
(* route of the resume router is present.  Uploads are sent by the member  *)
(* u1, without form values and with an extractor that throws: the tags     *)
(* come from the updates (uploads with tags are the subject of SpecIngest, *)
(* SpecSeq and SpecRace).  Updates, deletes and delete-alls are sent by    *)
(* every principal: the owner u1, the member u2 and the admin.  The        *)
(* searches: no filter, company=ac and keyword=go&query=keyword.           *)
(***************************************************************************)
Next ==
  \E s \in Slots :
    \/ UploadFrom(s, MaxOps, {u \in Users : u.id = "u1"},
         {SmallPdf, TwoChunkPdf}, {NoBody}, {ParseThrows})
    \/ UploadSteps(s) \/ TagSteps(s)
    \/ UpdateFrom(s, MaxOps, Users, UpdateBodies)
    \/ UpdateSteps(s)
    \/ DeleteFrom(s, MaxOps, Users)
    \/ DeleteSave(s) \/ DeleteBlob(s) \/ DeleteCommit(s)
    \/ DeleteAllFrom(s, MaxOps, Users)
    \/ DeleteAllUpdate(s) \/ DeleteAllBlob(s)
    \/ DeleteAllCommit(s)
    \/ GetFileFrom(s, MaxOps) \/ StreamFile(s)
    \/ GetByIdFrom(s, MaxOps)
    \/ SearchFrom(s, MaxOps,
         {NoQuery, [NoQuery EXCEPT !.company = <<"a","c">>],
          [NoQuery EXCEPT !.keyword = <<"g","o">>, !.query = KeywordWord]})
    \/ SearchSteps(s)

Spec == Init /\ [][Next]_vars

(***************************************************************************)
(* Reading runs: uploads of a two-chunk file, deletes by the uploader,     *)
(* downloads, lookups and searches, two requests at a time                 *)
(***************************************************************************)
NextRead ==
  \E s \in Slots :
    \/ UploadFrom(s, MaxReadOps, {u \in Users : u.id = "u1"}, {TwoChunkPdf},
         {NoBody}, {ParseThrows})
    \/ UploadSteps(s)
    \/ DeleteFrom(s, MaxReadOps, {u \in Users : u.id = "u1"})
    \/ DeleteSave(s) \/ DeleteBlob(s) \/ DeleteCommit(s)
    \/ GetFileFrom(s, MaxReadOps) \/ StreamFile(s)
    \/ GetByIdFrom(s, MaxReadOps)
    \/ SearchFrom(s, MaxReadOps, {NoQuery}) \/ SearchResumeFind(s)

SpecRead == Init /\ [][NextRead]_vars

(***************************************************************************)
(* Delete-all runs: uploads and delete-alls, two requests at a time        *)
(***************************************************************************)
NextPurge ==
  \E s \in Slots :
    \/ UploadFrom(s, MaxPurgeOps, {u \in Users : u.id = "u1"}, {SmallPdf},
         {NoBody}, {ParseThrows})
    \/ UploadSteps(s)
    \/ DeleteAllFrom(s, MaxPurgeOps, {u \in Users : u.role = "admin"})
    \/ DeleteAllUpdate(s) \/ DeleteAllBlob(s)
    \/ DeleteAllCommit(s)

SpecPurge == Init /\ [][NextPurge]_vars

(***************************************************************************)
(* Ingestion alone: one upload after the other, every kind of file         *)
(***************************************************************************)
NextIngest ==
  \/ UploadFrom(1, MaxIngest, {u \in Users : u.id = "u1"},
       {NoFile, EmptyFile, GifFile, BigPdf, SmallPdf, TwoChunkPdf},
       {NoBody, AcmeBody}, {ParseThrows, ParseOk})
  \/ UploadSteps(1) \/ TagSteps(1)

SpecIngest == Init /\ [][NextIngest]_vars

(***************************************************************************)
(* Sequential runs: uploads and updates, one request at a time             *)
(***************************************************************************)
NextSeq ==
  \/ UploadFrom(1, MaxSeqOps, {u \in Users : u.id = "u1"}, {SmallPdf},
       {NoBody, AcmeBody, FullBody}, {ParseThrows, ParseOk})
  \/ UploadSteps(1) \/ TagSteps(1)
  \/ UpdateFrom(1, MaxSeqOps, {u \in Users : u.id = "u1"}, UpdateBodies)
  \/ UpdateSteps(1)

SpecSeq == Init /\ [][NextSeq]_vars

(***************************************************************************)
(* Racing runs: uploads that extract the same company name or the same     *)
(* keyword, and updates that supply the company name                       *)
(***************************************************************************)
NextRace ==
  \E s \in Slots :
    \/ UploadFrom(s, MaxRaceOps, {u \in Users : u.id = "u1"}, {SmallPdf},
         {NoBody}, {[ParseOk EXCEPT !.data.keywords = <<>>],
                    [ParseOk EXCEPT !.data.companies = <<>>]})
    \/ UploadSteps(s) \/ TagSteps(s)
    \/ UpdateFrom(s, MaxRaceOps, {u \in Users : u.id = "u1"}, {RenameBody})
    \/ UpdateSteps(s)

SpecRace == Init /\ [][NextRace]_vars

(***************************************************************************)
(* One request at a time: uploads, updates and deletes sent by the owner,   *)
(* by another member or by an admin, and downloads                         *)
(***************************************************************************)
NextAuth ==
  \/ UploadFrom(1, MaxOps, {u \in Users : u.id = "u1"}, {SmallPdf}, {NoBody},
       {ParseThrows})
  \/ UploadSteps(1)
  \/ UpdateFrom(1, MaxOps, Users, UpdateBodies)
  \/ UpdateSteps(1) \/ TagSteps(1)
  \/ DeleteFrom(1, MaxOps, Users)
  \/ DeleteSave(1) \/ DeleteBlob(1) \/ DeleteCommit(1)
  \/ DeleteAllFrom(1, MaxOps, {u \in Users : u.id # "u2"})
  \/ DeleteAllUpdate(1) \/ DeleteAllBlob(1)
  \/ DeleteAllCommit(1)
  \/ GetFileFrom(1, MaxOps) \/ StreamFile(1)

SpecAuth == Init /\ [][NextAuth]_vars

(***************************************************************************)
(* Search: uploads with tags, deletes and filtered searches, one request   *)
(* at a time                                                               *)
(***************************************************************************)
NextSearch ==
  \/ UploadFrom(1, MaxOps, {u \in Users : u.id = "u1"}, {SmallPdf},
       {AcmeBody, CsBody}, {ParseThrows})
  \/ UploadSteps(1) \/ TagSteps(1)
  \/ DeleteFrom(1, MaxOps, Users)
  \/ DeleteSave(1) \/ DeleteBlob(1) \/ DeleteCommit(1)
  \/ SearchFrom(1, MaxOps, FilterQueries) \/ SearchSteps(1)

SpecSearch == Init /\ [][NextSearch]_vars

(***************************************************************************)
(* Field processing: uploads and updates with blank, long and repeated     *)
(* values, one request at a time                                           *)
(***************************************************************************)
NextFields ==
  \/ UploadFrom(1, MaxFieldOps, {u \in Users : u.id = "u1"},
       {SmallPdf, NamelessPdf},
       {NoBody, FullBody, BlankBody}, {ParseThrows, ParseOk, ParseLong})
  \/ UploadSteps(1) \/ TagSteps(1)
  \/ UpdateFrom(1, MaxFieldOps,
       {u \in Users : u.id = "u1"}, {RenameBody, LongNameBody})
  \/ UpdateSteps(1)

SpecFields == Init /\ [][NextFields]_vars

(***************************************************************************)
(* Runs in which every await eventually settles: one write request at a    *)
(* time, and a handler that is in flight always takes its next step        *)
(***************************************************************************)
LiveSteps ==
  \/ UploadSteps(1) \/ TagSteps(1) \/ UpdateSteps(1)
  \/ DeleteSave(1) \/ DeleteBlob(1) \/ DeleteCommit(1)
  \/ DeleteAllUpdate(1) \/ DeleteAllBlob(1) \/ DeleteAllCommit(1)

NextLive ==
  \/ UploadFrom(1, MaxLiveOps, {u \in Users : u.id = "u1"}, {SmallPdf},
                {NoBody}, {ParseThrows})
  \/ UpdateFrom(1, MaxLiveOps, {u \in Users : u.id = "u1"}, UpdateBodies)
  \/ DeleteFrom(1, MaxLiveOps, {u \in Users : u.id = "u1"})
  \/ DeleteAllFrom(1, MaxLiveOps, {u \in Users : u.role = "admin"})
  \/ LiveSteps

SpecLive == Init /\ [][NextLive]_vars /\ WF_vars(LiveSteps)

(***************************************************************************)
(* AuthProvider (src/lib/AuthContext.js): the admin auth context of the    *)
(* browser.  ctx.token is localStorage's 'token' (0: absent), ctx.cookie   *)
(* the cookie of that name, ctx.check the position of checkAuth and        *)
(* ctx.login that of an adminLogin call.                                   *)
(***************************************************************************)
\* the effect of the first render: checkAuth up to its await.  What the
\* browser holds at the mount is read here: localStorage's token and the
\* cookie are stored apart (the cookie expires after seven days,
\* localStorage does not), and checkAuth reads the token only
checkAuth ==
  /\ ctx.check = "unmounted"
  /\ \E token \in {0, 1}, cookie \in {0, 1} :
       ctx' = IF token = 0
              THEN [ctx EXCEPT !.check = "settled", !.isLoading = FALSE,
                               !.cookie = cookie]
              ELSE [ctx EXCEPT !.check = "waiting", !.token = token,
                               !.cookie = cookie]
  /\ UNCHANGED <<store, req, nops>>

\* authAPI.getCurrentUser() settles: setUser(data.data), or the catch
\* block; then setIsLoading(false)
checkAuthSettles ==
  /\ ctx.check = "waiting"
  /\ \/ ctx' = [ctx EXCEPT !.check = "settled", !.isLoading = FALSE,
                           !.user = [id |-> "admin", token |-> 0]]
     \/ ctx' = [ctx EXCEPT !.check = "settled", !.isLoading = FALSE,
                           !.token = 0, !.cookie = 0]
  /\ UNCHANGED <<store, req, nops>>

\* adminLogin(password) up to its await
adminLogin ==
  /\ ctx.check # "unmounted" /\ ctx.login = "idle"
  /\ ctx.calls < MaxCtxOps
  /\ ctx' = [ctx EXCEPT !.login = "waiting", !.calls = @ + 1]
  /\ UNCHANGED <<store, req, nops>>

\* authAPI.adminLogin(password) settles: the token and the user are stored
\* unless the call rejects, the response is an error or it has no token
adminLoginSettles ==
  /\ ctx.login = "waiting"
  /\ \/ \E responseData \in [error : BOOLEAN, token : {0, 2, 3}] :
          ctx' = IF responseData.error \/ responseData.token = 0
                 THEN [ctx EXCEPT !.login = "idle"]
                 ELSE [ctx EXCEPT !.login = "idle",
                         !.token = responseData.token,
                         !.cookie = responseData.token,
                         !.user = [id |-> "admin",
                                   token |-> responseData.token]]
     \/ ctx' = [ctx EXCEPT !.login = "idle"]
  /\ UNCHANGED <<store, req, nops>>

logout ==
  /\ ctx.check # "unmounted"
  /\ ctx.calls < MaxCtxOps
  /\ ctx' = [ctx EXCEPT !.cookie = 0, !.token = 0, !.user = NoUser,
                        !.calls = @ + 1]
  /\ UNCHANGED <<store, req, nops>>

NextCtx ==
  checkAuth \/ checkAuthSettles \/ adminLogin \/ adminLoginSettles \/ logout

SpecCtx == Init /\ [][NextCtx]_vars


(***************************************************************************)
(* Properties                                                              *)
(***************************************************************************)
IsUpload(s) == req[s].kind = "upload"

Finished(s) == req[s].pc = "done"

\* slot s takes a new request in this step
Starts(s) == nops' = nops + 1 /\ req'[s] # req[s]

\* some Resume record references the file
Referenced(fileId) == \E i \in 1..Len(resumes) : resumes[i].fileId = fileId

\* C1: every active Resume record refers to a blob that is present in the
\* blob store, in every reachable state.
C1_ActiveHasBlob ==
  \A i \in 1..Len(resumes) :
    resumes[i].isActive => FilePresent(resumes[i].fileId)

\* C2: a completed GET /resumes/r/file of a record r that an upload returned
\* with 201, found active, has streamed exactly the uploaded bytes and ended
\* the response with 200, unless the blob has been deleted in the meantime;
\* the stores answer (no lookup or read of the download is rejected).
C2_RoundTrip ==
  \A s, t \in Slots :
    ( /\ IsUpload(s) /\ req[s].status = 201
      /\ req[t].kind = "getFile" /\ Finished(t) /\ ~req[t].storeError
      /\ req[t].id = req[s].rid /\ req[t].fileId # 0 )
    => \/ /\ req[t].status = 200 /\ req[t].ended
          /\ req[t].body = req[s].file.buffer
       \/ ~FilePresent(req[t].fileId)

\* a two-chunk upload has been read back whole
C2_Witness ==
  \E s, t \in Slots :
    /\ IsUpload(s) /\ req[s].status = 201 /\ req[s].file = TwoChunkPdf
    /\ req[t].kind = "getFile" /\ Finished(t) /\ req[t].id = req[s].rid
    /\ req[t].status = 200 /\ req[t].ended
    /\ BufLen(req[t].body) = ChunkSizeBytes + 6

\* an upload ended with 500 after its blob had been written
FailedAfterBlob(s) ==
  /\ IsUpload(s) /\ Finished(s) /\ req[s].status = 500
  /\ req[s].gridfsFileId # 0 /\ req[s].rid = 0

\* C3 as stated: after an upload whose Resume create or commit failed, the
\* just-uploaded blob is not retrievable and no Resume references it.
C3_BlobAlwaysDeleted ==
  \A s \in Slots :
    FailedAfterBlob(s) =>
      ~FilePresent(req[s].gridfsFileId) /\ ~Referenced(req[s].gridfsFileId)

\* C3 (amended): after an upload whose Resume create or commit failed, one
\* delete of the just-uploaded blob has been attempted before the 500, no
\* Resume references the blob, and the blob is not retrievable when that
\* delete succeeded.
C3_BlobDeleteAttempted ==
  \A s \in Slots :
    FailedAfterBlob(s) =>
      /\ req[s].deletes = 1
      /\ ~Referenced(req[s].gridfsFileId)
      /\ req[s].deleteOk => ~FilePresent(req[s].gridfsFileId)

\* the commit of an upload failed and the compensation removed the blob
C3_Witness ==
  \E s \in Slots :
    /\ FailedAfterBlob(s) /\ req[s].currentStep = "transaction_commit"
    /\ req[s].deleteOk /\ ~FilePresent(req[s].gridfsFileId)

\* C4: an upload whose blob write fails ends at once with 500 and changes
\* nothing: no Resume, Company or Keyword record and no blob is added, and
\* no blob deletion is attempted.
C4_BlobWriteFailure ==
  [][\A s \in Slots :
       ( /\ IsUpload(s) /\ req[s].pc = "gridfs_upload"
         /\ req'[s] # req[s] /\ req'[s].gridfsFileId = 0 )
       => /\ req'[s].pc = "done" /\ req'[s].status = 500
          /\ req'[s].deletes = 0 /\ req'[s].creates = <<>>
          /\ req'[s].rid = 0
          /\ UNCHANGED <<resumes, companies, keywords, files>>]_vars

\* an upload ended with 500 at the blob write, after another one succeeded
C4_Witness ==
  \E s \in Slots :
    /\ IsUpload(s) /\ Finished(s) /\ req[s].status = 500
    /\ req[s].currentStep = "gridfs_upload" /\ req[s].gridfsFileId = 0
    /\ Len(resumes) = 1 /\ Len(files) = 1

\* the four rejections of the validation stage
InvalidFile(file) ==
  \/ ~file.exists
  \/ Len(file.buffer.head) + file.buffer.fill = 0
  \/ Len(file.buffer.head) + file.buffer.fill > 10 * 1024 * 1024
  \/ Len(file.buffer.head) < 4
  \/ SubSeq(file.buffer.head, 1, 4) # <<"%", "P", "D", "F">>

\* C5: an upload whose file is absent, empty, larger than 10 MiB or without
\* the %PDF signature is rejected with 400, the extractor is not invoked and
\* neither store changes.
C5_ValidationRejects ==
  [][\A s \in Slots :
       (Starts(s) /\ req'[s].kind = "upload" /\ InvalidFile(req'[s].file))
       => /\ req'[s].pc = "done" /\ req'[s].status = 400
          /\ ~req'[s].parseCalled
          /\ req'[s].gridfsFileId = 0 /\ req'[s].rid = 0
          /\ UNCHANGED <<resumes, companies, keywords, files>>]_vars

\* a GIF was rejected after a PDF had been stored
C5_Witness ==
  \E s \in Slots :
    /\ IsUpload(s) /\ req[s].file = GifFile
    /\ Finished(s) /\ req[s].status = 400
    /\ Len(resumes) = 1 /\ Len(files) = 1

\* the ids of the records in a search response
resultIds(data) == {data[k].id : k \in 1..Len(data)}

\* C6: a Resume that is inactive stays inactive, and every search, every
\* GET /resumes/:id and every GET /resumes/:id/file that reads it answers
\* without it (404 for the two GETs, or 500 without data when the lookup
\* itself is rejected), whether or not its blob is present.
C6_TombstoneStaysHidden ==
  [][\A i \in 1..Len(resumes) :
       ~resumes[i].isActive =>
         /\ ~resumes'[i].isActive
         /\ \A s \in Slots :
              /\ (Starts(s) /\ req'[s].kind \in {"getById", "getFile"}
                            /\ req'[s].id = i)
                   => /\ req'[s].pc = "done"
                      /\ req'[s].status \in {404, 500}
                      /\ req'[s].kind = "getFile" =>
                           /\ req'[s].body = EmptyBuf
                           /\ req'[s].status = 500 <=> req'[s].storeError
                      /\ req'[s].kind = "getById" => req'[s].data = <<>>
              /\ (req[s].kind = "search" /\ req[s].pc = "resume_find"
                                         /\ req'[s].pc = "done")
                   => i \notin resultIds(req'[s].data)]_vars

\* the file of a soft-deleted record was asked for while its blob was
\* still in the bucket
C6_Witness ==
  \E s \in Slots, i \in 1..Len(resumes) :
    /\ ~resumes[i].isActive /\ FilePresent(resumes[i].fileId)
    /\ req[s].kind = "getFile" /\ req[s].id = i
    /\ Finished(s) /\ req[s].status = 404


\* a finished request and the company names it resolved, with their ids
ResolvedCompanies(s) ==
  IF IsUpload(s) /\ Finished(s) /\ req[s].companyIds # <<>>
  THEN [names |-> req[s].companyList, ids |-> req[s].companyIds]
  ELSE IF req[s].kind = "update" /\ Finished(s) /\ req[s].status = 200
          /\ req[s].body.companies # <<>>
  THEN [names |-> req[s].companyList, ids |-> req[s].doc.companies]
  ELSE [names |-> <<>>, ids |-> <<>>]

\* the canonical form of one word of a company name
CanonicalWord(w, first) ==
  IF toUpperCase(w) \in
       { <<"L","L","C">>, <<"L","L","P">>, <<"U","S","A">>, <<"U","S">>,
         <<"U","K">>, <<"A","I">>, <<"I","T">>, <<"I","B","M">>, <<"H","P">>,
         <<"A","W","S">>, <<"G","E">> }
  THEN \A k \in 1..Len(w) : w[k] = UpperChar(w[k])
  ELSE IF ~first /\ toLowerCase(w) \in
       { <<"o","f">>, <<"t","h","e">>, <<"a","n","d">>, <<"a">>, <<"a","n">>,
         <<"i","n">>, <<"o","n">>, <<"a","t">>, <<"b","y">>, <<"f","o","r">>,
         <<"w","i","t","h">>, <<"t","o">> }
  THEN \A k \in 1..Len(w) : w[k] = LowerChar(w[k])
  ELSE \A k \in 1..Len(w) :
         w[k] = IF k = 1 THEN UpperChar(w[k]) ELSE LowerChar(w[k])

\* a name in title-cased canonical form, without surrounding whitespace
Canonical(name) ==
  /\ name # <<>> => ~IsSpace(name[1]) /\ ~IsSpace(name[Len(name)])
  /\ LET words == split(name, " ")
     IN  \A k \in 1..Len(words) : CanonicalWord(words[k], k = 1)

\* C7: in a sequential series of ingestions and updates, company names that
\* differ only in letter case or surrounding whitespace resolve to one
\* Company record, whose name is the title-cased canonical form: no two
\* records are equal up to case, and every resolved name refers to the
\* record that equals it up to case and surrounding whitespace.
C7_SequentialResolve ==
  /\ \A i, j \in 1..Len(companies) :
       i # j => toLowerCase(companies[i]) # toLowerCase(companies[j])
  /\ \A i \in 1..Len(companies) : Canonical(companies[i])
  /\ \A s \in Slots :
       LET rc == ResolvedCompanies(s)
       IN  /\ Len(rc.ids) = Len(rc.names)
           /\ \A k \in 1..Len(rc.ids) :
                toLowerCase(companies[rc.ids[k]]) = toLowerCase(trim(rc.names[k]))

AcmeKey == <<"A","c","m","e">>

\* an update resolved "acme" and "ACME" to the one record "Acme" that an
\* earlier upload had created
C7_Witness ==
  \E s \in Slots :
    /\ req[s].kind = "update" /\ Finished(s) /\ req[s].status = 200
    /\ req[s].creates = <<>>
    /\ Len(req[s].doc.companies) = 2
    /\ req[s].doc.companies[1] = req[s].doc.companies[2]
    /\ companies[req[s].doc.companies[1]] = AcmeKey
    /\ Len(companies) = 1

countName(coll, key) == Cardinality({i \in 1..Len(coll) : coll[i] = key})

\* two finished uploads that both missed the lookup and both issued a
\* create of kind `phase`, with no store failure in either
BothCreated(s, t, phase) ==
  /\ s # t
  /\ IsUpload(s) /\ Finished(s) /\ includes(req[s].creates, phase)
  /\ IsUpload(t) /\ Finished(t) /\ includes(req[t].creates, phase)
  /\ ~req[s].storeError /\ ~req[t].storeError

\* the names of the tag records a supplied list stands for
expectedNames(phase, list) == [k \in 1..Len(list) |-> tagKey(phase, list[k])]

\* s supplied the company name that tagKey turns into `key`
Supplied(s, key) == includes(expectedNames("co", req[s].companyList), key)

\* C8: when two concurrent ingestions supply the same unseen company name
\* there is an interleaving in which both lookups miss and both issue the
\* create; after both finish the number of Company records with the
\* canonical name is one or two.
C8_OneOrTwoRecords ==
  \A s, t \in Slots :
    /\ ( /\ s # t
         /\ IsUpload(s) /\ Finished(s) /\ ~req[s].storeError
         /\ IsUpload(t) /\ Finished(t) /\ ~req[t].storeError
         /\ Supplied(s, AcmeKey) /\ Supplied(t, AcmeKey) )
       => countName(companies, AcmeKey) \in {1, 2}

\* both uploads missed the lookup of "Acme", both issued the create and
\* both returned 201: two records carry the name
C8_Witness ==
  \E s, t \in Slots :
    /\ BothCreated(s, t, "co")
    /\ req[s].status = 201 /\ req[t].status = 201
    /\ req[s].companyIds = <<1>> /\ req[t].companyIds = <<2>>
    /\ companies = <<AcmeKey, AcmeKey>>

\* C9: no two Company records and no two Keyword records have the same
\* name, every Company name is a fixed point of the title-case
\* normalization and every Keyword name has no surrounding whitespace.
C9_UniqueCanonicalTags ==
  /\ \A i, j \in 1..Len(companies) : i # j => companies[i] # companies[j]
  /\ \A i, j \in 1..Len(keywords) : i # j => keywords[i] # keywords[j]
  /\ \A i \in 1..Len(companies) : formatTitleCase(companies[i]) = companies[i]
  /\ \A i \in 1..Len(keywords) :
       keywords[i] # <<>> =>
         ~IsSpace(keywords[i][1]) /\ ~IsSpace(keywords[i][Len(keywords[i])])

\* an upload that passed validation and whose extractor threw
ExtractorThrew(s) ==
  IsUpload(s) /\ req[s].parseCalled /\ req[s].parse.throws

\* C11: when the extractor throws on a valid PDF the ingestion goes on with
\* the fallback metadata for the fields the caller did not supply (name =
\* file name without extension, major = graduationYear = "Unspecified", no
\* extracted tags), returns 201 unless a store fails, and carries a non-null
\* parsingWarning; parsingWarning is null exactly when the extractor did not
\* throw.
C11_ExtractorFallback ==
  \A s \in Slots :
    (IsUpload(s) /\ req[s].parseCalled) =>
      /\ req[s].parsingWarning.null <=> ~req[s].parse.throws
      /\ (ExtractorThrew(s) /\ Finished(s) /\ ~req[s].storeError) =>
           /\ req[s].status = 201
           /\ req[s].rid \in 1..Len(resumes)
           /\ LET doc == resumes[req[s].rid]
              IN  /\ doc.name = IF req[s].file = TwoChunkPdf
                                THEN <<"c", " ", "v">> ELSE <<"a", "l">>
                  /\ doc.major = Unspecified
                  /\ doc.graduationYear = Unspecified
                  /\ req[s].body.companies = <<>> => doc.companies = <<>>
                  /\ req[s].body.keywords = <<>> => doc.keywords = <<>>
                  /\ req[s].body.companies # <<>> =>
                       namesOf(companies, doc.companies) = <<AcmeKey>>
                  /\ req[s].body.keywords # <<>> =>
                       namesOf(keywords, doc.keywords) = << <<"j","s">> >>

\* the extractor threw on "c v.pdf" sent without form fields; the upload
\* returned 201 with a warning
C11_Witness ==
  \E s \in Slots :
    /\ ExtractorThrew(s) /\ req[s].status = 201
    /\ req[s].file = TwoChunkPdf /\ req[s].body = NoBody
    /\ ~req[s].parsingWarning.null
    /\ req[s].parsingWarning.text = UnknownParsingError
    /\ resumes[req[s].rid].name = <<"c", " ", "v">>


\* the upload in slot s sends its response in this step
Responds(s) ==
  /\ req'[s].kind = "upload" /\ req'[s].pc = "done"
  /\ req'[s] # req[s]

\* C12: an upload that returns 201 has added one blob and one Resume record
\* whose fileId is that blob's id, and no other record refers to the blob;
\* an upload that returns an error has added no Resume record and leaves at
\* most one blob, which no record references. A blob is added only by an
\* upload that had none, and a record only by an upload returning 201.
C12_UploadEffects ==
  [][/\ \A s \in Slots :
          Responds(s) =>
            LET r == req'[s]
            IN  IF r.status = 201
                THEN /\ Len(resumes') = Len(resumes) + 1
                     /\ r.rid = Len(resumes')
                     /\ r.gridfsFileId \in 1..Len(files')
                     /\ files'[r.gridfsFileId].present
                     /\ files'[r.gridfsFileId].data = r.file.buffer
                     /\ {i \in 1..Len(resumes') :
                           resumes'[i].fileId = r.gridfsFileId} = {r.rid}
                ELSE /\ resumes' = resumes
                     /\ r.rid = 0
                     /\ r.status \in {400, 500}
                     /\ \A i \in 1..Len(resumes') :
                          resumes'[i].fileId # r.gridfsFileId
     /\ Len(files') \in {Len(files), Len(files) + 1}
     /\ Len(files') = Len(files) + 1 =>
          \E s \in Slots : /\ IsUpload(s) /\ req[s].gridfsFileId = 0
                           /\ req'[s].gridfsFileId = Len(files')
     /\ resumes' # resumes =>
          \E s \in Slots : Responds(s) /\ req'[s].status = 201]_vars

\* a first upload failed and left its blob behind; the second returned 201
\* with the second blob and the first record
C12_Witness ==
  \E s \in Slots :
    /\ IsUpload(s) /\ req[s].status = 201
    /\ req[s].rid = 1 /\ req[s].gridfsFileId = 2
    /\ FilePresent(1) /\ ~Referenced(1)
    /\ resumes[1].fileId = 2


\* the principal is an admin or the uploader of the record
Permitted(user, doc) == user.role = "admin" \/ user.id = doc.uploadedBy

\* C13: an update or a single delete of an existing active Resume, whose
\* lookup is answered, gets 403 exactly when the principal is neither an
\* admin nor the record's uploader, and a delete-all exactly when the
\* principal is not an admin; a 403 ends the request with both stores
\* unchanged, and a record is changed only by a request of a permitted
\* principal.
C13_Permission ==
  [][\A s \in Slots :
       /\ ( /\ Starts(s) /\ req'[s].kind \in {"update", "delete"}
            /\ findActive_anyRecord(req'[s].id) # 0
            /\ resumes[req'[s].id].isActive
            /\ req'[s].status # 500 )
          => /\ req'[s].status = 403
                  <=> ~Permitted(req'[s].user, resumes[req'[s].id])
             /\ req'[s].status \in {0, 403}
       /\ (Starts(s) /\ req'[s].kind = "deleteAll")
          => (req'[s].status = 403 <=> req'[s].user.role # "admin")
       /\ (Starts(s) /\ req'[s].status = 403)
          => /\ req'[s].pc = "done"
             /\ UNCHANGED <<resumes, companies, keywords, files, txnLock>>
       /\ ( /\ req[s].kind \in {"update", "delete"} /\ req'[s] # req[s]
            /\ resumes' # resumes )
          => /\ Permitted(req[s].user, resumes[req[s].id])
             /\ \A i \in 1..Len(resumes) :
                  i # req[s].id => resumes'[i] = resumes[i]
       /\ (req[s].kind = "deleteAll" /\ req'[s] # req[s] /\ resumes' # resumes)
          => req[s].user.role = "admin"]_vars

\* the update of u1's active record by the member u2 was refused; the
\* record and its blob are as they were
C13_Witness ==
  \E s \in Slots :
    /\ req[s].kind = "update" /\ req[s].status = 403
    /\ req[s].user.id = "u2"
    /\ resumes[req[s].id].uploadedBy = "u1"
    /\ resumes[req[s].id].isActive
    /\ FilePresent(resumes[req[s].id].fileId)


\* C14: in a single delete the blob deletion starts only after the
\* transaction that flips isActive has committed: whenever a step of a
\* delete request removes a blob, the record is already inactive in the
\* committed store, and a delete that ends in an error leaves the blob.
C14_BlobDeleteAfterCommit ==
  [][\A s \in Slots :
       /\ (req[s].kind = "delete" /\ req'[s] # req[s] /\ files' # files)
          => ~resumes[req[s].id].isActive
       /\ ( /\ req[s].kind = "delete" /\ req'[s] # req[s]
            /\ req'[s].pc = "done" /\ req'[s].status = 500
            /\ req[s].snap # <<>> )
          => files'[req[s].snap.fileId].present]_vars


\* C15: in delete-all every settled blob deletion, failed or not, is
\* followed by the next one or by the commit and leaves the flip and the
\* transaction as they are; a 200 comes only after a deletion was attempted
\* for every blob, and then every record that was active at the start is
\* inactive.
C15_DeleteAllBestEffort ==
  [][\A s \in Slots :
       (req[s].kind = "deleteAll" /\ req'[s] # req[s]) =>
         /\ req[s].pc = "all_blobs" =>
              /\ \E j \in (1..Len(req[s].all)) \ req[s].settled :
                   req'[s].settled = req[s].settled \cup {j}
              /\ req'[s].pc = IF req'[s].settled = 1..Len(req[s].all)
                              THEN "all_commit" ELSE "all_blobs"
              /\ UNCHANGED <<resumes, txnLock>>
         /\ (req'[s].pc = "done" /\ req'[s].status = 200) =>
              /\ req[s].pc = "all_commit"
              /\ req[s].settled = 1..Len(req[s].all)
              /\ req'[s].count = Len(req[s].all)
              /\ \A i \in 1..Len(req[s].all) :
                   ~resumes'[req[s].all[i]].isActive]_vars

\* a delete-all of two records returned 200 although the deletion of the
\* first blob failed; the second blob is gone and both records are inactive
C15_Witness ==
  \E s \in Slots :
    /\ req[s].kind = "deleteAll" /\ req[s].status = 200
    /\ Len(req[s].all) = 2
    /\ FilePresent(req[s].snaps[1].fileId)
    /\ ~FilePresent(req[s].snaps[2].fileId)
    /\ \A i \in 1..2 : ~resumes[req[s].all[i]].isActive


\* C16: GET /resumes/:id/file answers 400 for a malformed id, 404 when no
\* active Resume has the id (the lookup being answered), and 404 when the
\* record is active but its blob is not in the blob store when the stream
\* is opened; none of these responses carries a byte of a PDF.
C16_FileErrors ==
  [][\A s \in Slots :
       /\ (Starts(s) /\ req'[s].kind = "getFile") =>
            LET id == req'[s].id
            IN  /\ id = 0 => req'[s].pc = "done" /\ req'[s].status = 400
                /\ (id # 0 /\ ~req'[s].storeError
                           /\ (id \notin 1..Len(resumes)
                               \/ ~resumes[id].isActive))
                   => req'[s].pc = "done" /\ req'[s].status = 404
                /\ (id \in 1..Len(resumes) /\ resumes[id].isActive
                                           /\ ~req'[s].storeError)
                   => req'[s].pc = "stream" /\ req'[s].status = 0
       /\ ( /\ req[s].kind = "getFile" /\ req[s].pc = "stream"
            /\ req'[s] # req[s]
            /\ req[s].body = EmptyBuf /\ ~files[req[s].fileId].present )
          => /\ req'[s].pc = "done" /\ req'[s].status = 404
             /\ req'[s].ended
       /\ (req'[s].kind = "getFile" /\ req'[s].status \in {400, 404})
          => req'[s].body = EmptyBuf]_vars

\* the record is active, its blob was gone when the stream opened:
\* 404 without a byte
C16_Witness ==
  \E s \in Slots :
    /\ req[s].kind = "getFile" /\ Finished(s) /\ req[s].status = 404
    /\ req[s].fileId # 0 /\ req[s].ended /\ req[s].body = EmptyBuf
    /\ resumes[req[s].id].isActive
    /\ ~FilePresent(req[s].fileId)


\* hay contains needle, ignoring the case of letters
Has(hay, needle) ==
  \E a \in 0..(Len(hay) - Len(needle)) :
    toLowerCase(SubSeq(hay, a + 1, a + Len(needle))) = toLowerCase(needle)

\* the values of a comma-separated filter
Values(csv) == {v \in ids(split(csv, ",")) : trim(v) # <<>>}

\* no record of the collection matches a value of the filter
NoTagMatches(coll, csv) ==
  \A i \in 1..Len(coll) : \A v \in Values(csv) : ~Has(coll[i], trim(v))

\* C17: a search with a company filter (or a keyword filter) of which no
\* value matches the name of a Company (Keyword) record answers 200 with
\* count 0 and no data, whatever the other filters are, and does not query
\* the Resume collection (the store answering every find of the request).
C17_NoTagShortCircuit ==
  \A s \in Slots :
    ( /\ req[s].kind = "search" /\ Finished(s) /\ ~req[s].storeError
      /\ \/ /\ req[s].query.company # <<>>
            /\ NoTagMatches(companies, req[s].query.company)
         \/ /\ req[s].query.keyword # <<>>
            /\ NoTagMatches(keywords, req[s].query.keyword) )
    => /\ req[s].status = 200
       /\ req[s].count = 0 /\ req[s].data = <<>>
       /\ ~req[s].queried

\* the record satisfies every filter the search supplies
Satisfies(q, doc) ==
  /\ q.query # <<>> =>
       \/ Has(doc.name, q.query) \/ Has(doc.major, q.query)
       \/ Has(doc.graduationYear, q.query)
       \/ /\ Has(q.query, CompanyWord) \/ Has(q.query, KeywordWord)
          /\ \/ \E c \in ids(doc.companies) : Has(companies[c], q.query)
             \/ \E k \in ids(doc.keywords) : Has(keywords[k], q.query)
  /\ q.name # <<>> => Has(doc.name, q.name)
  /\ q.major # <<>> => \E v \in Values(q.major) : Has(doc.major, trim(v))
  /\ q.graduationYear # <<>> =>
       \E v \in Values(q.graduationYear) : doc.graduationYear = trim(v)
  /\ q.company # <<>> =>
       \E c \in ids(doc.companies) : \E v \in Values(q.company) :
         Has(companies[c], trim(v))
  /\ q.keyword # <<>> =>
       \E k \in ids(doc.keywords) : \E v \in Values(q.keyword) :
         Has(keywords[k], trim(v))

\* C18: a search that answers 200 returns exactly the active Resume
\* records that satisfy every supplied filter, each once, the most
\* recently created first.
C18_SearchResult ==
  [][\A s \in Slots :
       ( /\ req'[s].kind = "search" /\ req'[s] # req[s]
         /\ req'[s].pc = "done" /\ req'[s].status = 200 ) =>
         LET d == req'[s].data
             q == req'[s].query
         IN  /\ req'[s].count = Len(d)
             /\ resultIds(d) =
                  {i \in 1..Len(resumes) :
                     resumes[i].isActive /\ Satisfies(q, resumes[i])}
             /\ Cardinality(resultIds(d)) = Len(d)
             /\ \A k \in 1..(Len(d) - 1) :
                  resumes[d[k].id].createdAt > resumes[d[k + 1].id].createdAt
             /\ \A k \in 1..Len(d) :
                  /\ d[k].name = resumes[d[k].id].name
                  /\ d[k].major = resumes[d[k].id].major]_vars


\* C19: when an error stops the stream of a blob after bytes were written,
\* the response is terminated: once the handler of a download that wrote
\* bytes has finished, the response has been ended.
C19_StreamErrorEndsResponse ==
  \A s \in Slots :
    (req[s].kind = "getFile" /\ Finished(s) /\ req[s].body # EmptyBuf)
    => req[s].ended


\* the upload in slot s leaves the resolution of its company (keyword)
\* names in this step
LeavesTags(s, find, create) ==
  /\ IsUpload(s)
  /\ req[s].pc \in {find, create}
  /\ req'[s].pc \notin {find, create}

\* C20: when the resolution of one company (or keyword) name fails during
\* an ingestion, only that name is skipped: the ids of the names resolved
\* before it are kept for the Resume record, and the ingestion goes on to
\* create the record.
C20_PerNameSkip ==
  [][\A s \in Slots :
       /\ LeavesTags(s, "co_find", "co_create") =>
            /\ \A k \in 1..Len(req[s].got) :
                 includes(req'[s].companyIds, req[s].got[k])
            /\ req'[s].pc \in {"kw_find", "db_create"}
       /\ LeavesTags(s, "kw_find", "kw_create") =>
            /\ \A k \in 1..Len(req[s].got) :
                 includes(req'[s].keywordIds, req[s].got[k])
            /\ req'[s].pc = "db_create"]_vars


\* C21: the compensating blob delete of a failed ingestion is attempted
\* once; when it fails the request still ends in that step with the 500 of
\* the original failure, nothing is retried, and the blob stays in the
\* store, referenced by no record when the ingestion committed none.
C21_CompensationBestEffort ==
  [][\A s \in Slots :
       (IsUpload(s) /\ req[s].pc = "compensate" /\ req'[s] # req[s]) =>
         /\ req[s].deletes = 0 /\ req'[s].deletes = 1
         /\ req'[s].pc = "done" /\ req'[s].status = 500
         /\ req'[s].currentStep = req[s].currentStep
         /\ req'[s].rid = req[s].rid
         /\ resumes' = resumes
         /\ files' = files =>
              /\ ~req'[s].deleteOk
              /\ files'[req[s].gridfsFileId].present
              /\ req[s].rid = 0 =>
                   \A i \in 1..Len(resumes') :
                     resumes'[i].fileId # req[s].gridfsFileId]_vars

\* the Resume create failed and so did the delete of the blob: 500, one
\* attempt, the blob is an orphan
C21_Witness ==
  \E s \in Slots :
    /\ IsUpload(s) /\ Finished(s) /\ req[s].status = 500
    /\ req[s].currentStep = "database_create" /\ req[s].rid = 0
    /\ req[s].deletes = 1 /\ ~req[s].deleteOk
    /\ FilePresent(req[s].gridfsFileId)
    /\ ~Referenced(req[s].gridfsFileId)


\* the company and keyword names an upload was given, before cap and
\* deduplication
rawCompanies(s) ==
  IF req[s].body.companies # <<>> THEN csvList(req[s].body.companies)
  ELSE IF req[s].parse.throws THEN <<>> ELSE req[s].parse.data.companies

rawKeywords(s) ==
  IF req[s].body.keywords # <<>> THEN csvList(req[s].body.keywords)
  ELSE IF req[s].parse.throws THEN <<>> ELSE req[s].parse.data.keywords

\* the positions of the first occurrences in a list
FirstAt(list) ==
  {i \in 1..Len(list) : \A j \in 1..(i - 1) : list[j] # list[i]}

\* the first occurrences of a list, in order
Distinct(list) ==
  LET F == FirstAt(list)
  IN  [k \in 1..Cardinality(F) |->
         list[CHOOSE i \in F : Cardinality({j \in F : j <= i}) = k]]

FirstN(list, n) == SubSeq(list, 1, IF Len(list) < n THEN Len(list) ELSE n)

\* C22: the company list and the keyword list passed to tag resolution are
\* the first 100 entries of the deduplicated input list (deduplication
\* before the cap).
C22_DedupThenCap ==
  \A s \in Slots :
    (IsUpload(s) /\ req[s].parseCalled) =>
      /\ req[s].companyList = FirstN(Distinct(rawCompanies(s)), MaxTags)
      /\ req[s].keywordList = FirstN(Distinct(rawKeywords(s)), MaxTags)


\* a stored string field is not empty and has at most 255 characters
FieldOk(v) == v # <<>> /\ Len(v) <= MaxFieldLen

\* C23: after any sequence of uploads and updates every persisted Resume
\* has a non-empty name, major and graduationYear of at most 255
\* characters each.
C23_FieldsBounded ==
  \A i \in 1..Len(resumes) :
    /\ FieldOk(resumes[i].name)
    /\ FieldOk(resumes[i].major)
    /\ FieldOk(resumes[i].graduationYear)


\* a value that is neither empty nor whitespace only
Usable(v) == \E k \in 1..Len(v) : v[k] # " "

\* caller-supplied value, else extracted value, else fallback
Pick(supplied, extracted, fallback) ==
  IF Usable(supplied) THEN supplied
  ELSE IF Usable(extracted) THEN extracted
  ELSE fallback

\* what the extractor found for an upload; nothing when it threw
Extracted(s) == IF req[s].parse.throws THEN NoBody ELSE req[s].parse.data

ClampText(v) ==
  IF Len(v) > 255 THEN SubSeq(v, 1, 252) \o <<".", ".", ".">> ELSE v

\* C24: ingestion stores, for name, major and graduationYear, the
\* caller-supplied value when it is usable, otherwise the extracted value
\* when it is usable, otherwise the fallback (file name stem, "Unspecified");
\* a blank or whitespace-only caller value falls through to the extracted
\* value.
C24_FieldPrecedence ==
  \A s \in Slots :
    (IsUpload(s) /\ req[s].parseCalled) =>
      /\ req[s].file.originalname = PdfName =>
           req[s].name =
             ClampText(Pick(req[s].body.name, Extracted(s).name, <<"a", "l">>))
      /\ req[s].major =
           ClampText(Pick(req[s].body.major, Extracted(s).major, Unspecified))
      /\ req[s].graduationYear =
           LET y == Pick(req[s].body.graduationYear,
                         Extracted(s).graduationYear, Unspecified)
           IN  IF Len(y) > 255 THEN Unspecified ELSE y

(***************************************************************************)
(* C25: the companies and keywords lists of a 201 upload response are the  *)
(* names of the Company and Keyword records the created Resume references, *)
(* not the supplied names and not names whose resolution failed.           *)
(***************************************************************************)
C25_ResponseTags ==
  \A s \in Slots :
    (IsUpload(s) /\ req[s].status = 201) =>
      /\ uploadResponseData(req[s]).companies =
           namesOf(companies, resumes[req[s].rid].companies)
      /\ uploadResponseData(req[s]).keywords =
           namesOf(keywords, resumes[req[s].rid].keywords)

(***************************************************************************)
(* C26: in every reachable state the companies list and the keywords list  *)
(* of every Resume contain no repeated reference.                          *)
(***************************************************************************)
NoRepeat(list) ==
  \A i \in 1..Len(list) : \A j \in 1..Len(list) :
    list[i] = list[j] => i = j

C26_NoRepeatedReference ==
  \A id \in 1..Len(resumes) :
    NoRepeat(resumes[id].companies) /\ NoRepeat(resumes[id].keywords)

(***************************************************************************)
(* C27: an update never changes the blob store nor the fileId, uploadedBy  *)
(* or isActive of a record, and an update that ends in an error response   *)
(* (400, 403, 404 or 500) leaves every field of the Resume records as it   *)
(* was.                                                                    *)
(***************************************************************************)
UpdateStep(s) == req'[s] # req[s] /\ req'[s].kind = "update"

C27_UpdateFrame ==
  [][\A s \in Slots :
       UpdateStep(s) =>
         /\ files' = files
         /\ Len(resumes') = Len(resumes)
         /\ \A i \in 1..Len(resumes) :
              /\ resumes'[i].fileId = resumes[i].fileId
              /\ resumes'[i].uploadedBy = resumes[i].uploadedBy
              /\ resumes'[i].isActive = resumes[i].isActive
         /\ (req'[s].pc = "done" /\ req'[s].status \in {400, 403, 404, 500})
              => resumes' = resumes]_vars

\* an update by the owner that carried new field values ended in 500 and
\* the stored record is not the document the handler had edited
C27_Witness ==
  /\ req[1].kind = "update" /\ req[1].pc = "done" /\ req[1].status = 500
  /\ req[1].id \in 1..Len(resumes)
  /\ resumes[req[1].id] = req[1].snap
  /\ savedDoc(req[1].doc) # resumes[req[1].id]

(***************************************************************************)
(* C28: no step removes or renames a Company or Keyword record and no step *)
(* removes a Resume record: the three sets of ids only grow, and a tag     *)
(* record stays in place when no active Resume references it.              *)
(***************************************************************************)
Extends(old, new) ==
  /\ Len(new) >= Len(old)
  /\ \A i \in 1..Len(old) : new[i] = old[i]

C28_AppendOnly ==
  [][/\ Extends(companies, companies')
     /\ Extends(keywords, keywords')
     /\ Len(resumes') >= Len(resumes)]_vars

\* a Company is in place after the delete-all of the only record that
\* referenced it
C28_Witness ==
  /\ companies # <<>> /\ resumes # <<>>
  /\ \E i \in 1..Len(resumes) : resumes[i].companies # <<>>
  /\ \A i \in 1..Len(resumes) : ~resumes[i].isActive
  /\ \E s \in Slots : req[s].kind = "deleteAll" /\ req[s].status = 200

(***************************************************************************)
(* C29: a delete-all whose Resume.find is answered and finds no active     *)
(* Resume returns 404 and changes nothing; otherwise the count it reports  *)
(* is the number of records it flipped to inactive, also when an upload    *)
(* commits while the delete-all is in progress.                            *)
(***************************************************************************)
Flipped == {i \in 1..Len(resumes) : resumes[i].isActive /\ ~resumes'[i].isActive}

C29_DeleteAllCount ==
  [][\A s \in Slots :
       (req'[s] # req[s] /\ req'[s].kind = "deleteAll") =>
         /\ Starts(s) =>
              /\ UNCHANGED store
              /\ req'[s].status = 404 => activeIds = <<>>
              /\ (activeIds = <<>> /\ req'[s].status \notin {403, 500})
                   => req'[s].status = 404
         /\ req'[s].status = 200 =>
              /\ req'[s].count = Cardinality(Flipped)
              /\ req'[s].count >= 1]_vars

\* the delete-all read one active record and has flagged it; a second
\* upload has committed since, and the delete-all is about to commit
C29_Witness ==
  \E s \in Slots :
    /\ req[s].kind = "deleteAll" /\ req[s].pc = "all_commit"
    /\ req[s].all = <<1>>
    /\ Len(resumes) = 2 /\ resumes[2].isActive

(***************************************************************************)
(* C30: the compensating blob delete of an upload runs only when no Resume *)
(* record of that upload has been committed: a failure after the commit    *)
(* has succeeded never deletes the blob of the committed, active record.   *)
(***************************************************************************)
C30_CompensateOnlyUncommitted ==
  [][\A s \in Slots :
       (IsUpload(s) /\ req[s].pc = "compensate" /\ req'[s] # req[s]) =>
         /\ req[s].rid = 0
         /\ ~Referenced(req[s].gridfsFileId)
         /\ \A i \in 1..Len(resumes) :
              (resumes[i].isActive /\ FilePresent(resumes[i].fileId))
                => files'[resumes[i].fileId].present]_vars

(***************************************************************************)
(* C31: Company and Keyword records created by tag resolution are written  *)
(* outside the Resume transaction: when an upload or an update ends in 500 *)
(* with its transaction not committed, the tag records it resolved are in  *)
(* the store and the Resume collection is as it was.                       *)
(***************************************************************************)
\* the request in slot s sends a 500 in this step
Fails(s) ==
  /\ req[s].kind \in {"upload", "update"} /\ req[s].pc # "done"
  /\ req'[s].pc = "done" /\ req'[s].status = 500

\* ... and its transaction has not committed
Aborts(s) ==
  /\ Fails(s)
  /\ req[s].kind = "upload" => req'[s].rid = 0
  /\ req[s].kind = "update" =>
       ~(req[s].pc = "commit_update" /\ req'[s].storeError)

\* the Company and Keyword ids the request holds
heldCompanies(r) == IF r.kind = "upload" THEN r.companyIds ELSE r.doc.companies

heldKeywords(r) == IF r.kind = "upload" THEN r.keywordIds ELSE r.doc.keywords

C31_TagsOutsideTransaction ==
  [][\A s \in Slots :
       Aborts(s) =>
         /\ resumes' = resumes
         /\ companies' = companies /\ keywords' = keywords
         /\ \A k \in 1..Len(heldCompanies(req[s])) :
              heldCompanies(req[s])[k] \in 1..Len(companies')
         /\ \A k \in 1..Len(heldKeywords(req[s])) :
              heldKeywords(req[s])[k] \in 1..Len(keywords')]_vars

\* the first upload created a Company and a Keyword and then failed at
\* Resume.create: both records are in the store and no Resume is
C31_Witness ==
  \E s \in Slots :
    /\ IsUpload(s) /\ Finished(s) /\ req[s].status = 500
    /\ req[s].currentStep = "database_create"
    /\ req[s].companyIds = <<1>> /\ req[s].keywordIds = <<1>>
    /\ Len(companies) = 1 /\ Len(keywords) = 1 /\ resumes = <<>>

\* C32: every upload, update, delete and delete-all request that has started
\* eventually receives its HTTP response, on every path, the one on which an
\* error is raised after the transaction is committed included
InFlight(s) ==
  /\ req[s].kind \in {"upload", "update", "delete", "deleteAll"}
  /\ req[s].pc # "done"

Answered(s) == req[s].pc = "done" /\ req[s].status # 0

C32_EveryRequestAnswered == InFlight(1) ~> Answered(1)

(***************************************************************************)
(* C33: every record a delete-all flips to inactive is one whose blob the  *)
(* same delete-all has tried to delete, whatever uploads run beside it: a  *)
(* record committed between the delete-all's read of the active records    *)
(* and its bulk flip is not made inactive with its blob left alone.        *)
(***************************************************************************)
\* the delete-all in slot s has settled the deleteFromGridFS of record i
Attempted(s, i) ==
  \E j \in req[s].settled :
    /\ req[s].all[j] = i
    /\ req[s].snaps[j].fileId = resumes[i].fileId

C33_FlippedBlobAttempted ==
  [][\A s \in Slots :
       (req[s].kind = "deleteAll" /\ req[s].pc # "done" /\ req'[s] # req[s]) =>
         \A i \in Flipped : Attempted(s, i)]_vars

\* a delete-all has committed: it read record 1, tried its blob and flagged
\* it; record 2, uploaded beside it, is still active and keeps its blob
C33_Witness ==
  \E s, t \in Slots :
    /\ req[s].kind = "deleteAll" /\ req[s].pc = "done" /\ req[s].status = 200
    /\ req[s].all = <<1>> /\ req[s].settled = {1}
    /\ ~resumes[1].isActive /\ ~FilePresent(resumes[1].fileId)
    /\ req[t].kind = "upload" /\ req[t].pc = "done" /\ req[t].rid = 2
    /\ Len(resumes) = 2 /\ resumes[2].isActive
    /\ FilePresent(resumes[2].fileId)

(***************************************************************************)
(* C34: in the admin auth context, once logout has run, user is null and   *)
(* stays null until an adminLogin succeeds, whatever the initial checkAuth *)
(* does: a getCurrentUser response that was requested before the logout    *)
(* and arrives after it does not set user again.                           *)
(***************************************************************************)
\* logout has removed the token and reset user, and no adminLogin has
\* stored a token since
LoggedOut == ctx.token = 0 /\ ctx.cookie = 0 /\ ctx.user = NoUser

\* this step is an adminLogin that stores its token and its user
LoginSucceeds ==
  /\ ctx.login = "waiting" /\ ctx'.login = "idle"
  /\ ctx'.token # 0 /\ ctx'.user.token = ctx'.token

C34_LoggedOutStaysNull ==
  [][(LoggedOut /\ ctx'.user # NoUser) => LoginSucceeds]_vars

====
